---- MODULE Spec2Model ----
(***************************************************************************)
(* Model of the progressive panorama controller of 8800-blue-lick:         *)
(* src/src/components/PanoramaViewer.tsx (the PanoramaViewer effect, its   *)
(* loadPanorama closure, the upgrade timer callback and the cleanup).      *)
(*                                                                         *)
(* Every run of the effect is a "request"; request r owns the closure that *)
(* captured sweepUuid and targetResolution.  Resources are named after the *)
(* request and the load that produced them: <<r, "pre">> is the texture    *)
(* set (and the material array built on it) of the '512' preview load of   *)
(* request r, <<r, "up">> the one of its background upgrade load; mesh r   *)
(* (with geometry r) is the mesh built by request r.  The six textures and *)
(* six materials of a set are created and disposed together by the same    *)
(* forEach, so a set is one resource.                                      *)
(***************************************************************************)
EXTENDS Integers, Sequences, FiniteSets, TLC

\* Bound: number of effect runs (requests) in a behaviour.
MaxRequests == 3

\* Sweep identifiers passed as the sweepUuid prop.
Sweeps == {"A", "B"}

\* type TextureResolution = '512' | '1k' | '2k'
Tiers == {"512", "1k", "2k"}

\* Tiers passed as the resolution prop: the preview tier and one tier that
\* needs an upgrade (the controller only tests a tier for equality and
\* against '512').
RequestedTiers == {"512", "2k"}

ReqIds == 1..MaxRequests
Kinds == {"pre", "up"}
ResIds == ReqIds \X Kinds
NoMat == <<0, "none">>

VARIABLES
    phase,                  \* "init" (constructed, effect not yet run), "mounted", "unmounted"
    sweepUuid,              \* prop
    resolution,             \* prop
    currentSweepRef,        \* useRef, "undefined" initially
    currentResolutionRef,   \* useRef, "undefined" initially
    meshRef,                \* useRef: mesh id, 0 is null
    upgradeTimeoutRef,      \* useRef: timer id (the request that set it), 0 is null
    requests,               \* closures of the effect runs, in order
    previewLoad,            \* per request: "none", "inflight", "ok", "failed"
    timer,                  \* per request: "none", "pending", "fired", "cleared"
    upgradeLoad,            \* per request: "none", "aborted", "inflight", "applied", "stale", "failed"
    loads,                  \* calls of loadCubemapTextures, in order
    scene,                  \* meshes attached to the scene
    meshMat,                \* mesh.material of each mesh
    texCreated,             \* texture sets returned by loadCubemapTextures
    matCreated,             \* material arrays constructed
    geomDisp,               \* number of geometry.dispose() calls per mesh
    matDisp,                \* number of mat.dispose() calls per material array
    texDisp,                \* number of mat.map.dispose() calls per texture set
    swapPc,                 \* request whose upgrade callback is between lines 110 and 113, else 0
    \* one call of loadTiledTexture (textureLoader.ts)
    tPhase,                 \* "idle", "pending", "resolved", "rejected"
    tGrid,                  \* tilesPerSide argument, 0 before the call
    tUrls,                  \* tileUrls argument
    tTile,                  \* per tile image: "pending", "loaded", "failed"
    tCanvas,                \* content of each canvas cell, keyed by its offset <<x, y>>
    tResult,                \* the texture the call resolved with
    tOrder,                 \* tile positions in the order their images settled
    \* one call of loadCubemapTextures (textureLoader.ts)
    cPhase,                 \* "idle", "pending", "resolved", "rejected"
    cTier,                  \* resolution argument
    cPending,               \* per position: tile fetches issued and not yet settled
    cFailed,                \* per position: tile fetches that failed
    cFace,                  \* per position: "idle", "pending", "resolved", "rejected"
    cValue,                 \* per position: the texture its face promise resolved with
    cDone,                  \* positions in the order their face loads resolved
    cResult,                \* the array the call resolved with
    \* one call of a pure function (getTilePaths, the URL building of
    \* loadCubemapTextures, formatUUID, calculateRequiredResolution)
    fnArgs,                 \* the function called and its arguments
    fnDone,                 \* whether the call has returned
    fnResult,               \* the value returned
    \* the App component (App.tsx) with its hooks and its ThreeScene child
    location,               \* window.location.search: the URL's parameters
    mounted,                \* the first commit of App has happened
    fetching,               \* the fetch of sweeps.json is in flight
    sweeps,                 \* useSweepsData state: the sweep_uuid of each sweep, in order
    loading,                \* useSweepsData state
    error,                  \* useSweepsData state: TRUE for a message, FALSE for null
    currentSweep,           \* useState: index into sweeps, 0 is null
    sceneState,             \* useState scene: TRUE when non-null
    threeSceneRef,          \* useRef: TRUE when the ThreeScene handle is attached
    sceneRef,               \* ThreeScene's sceneRef: TRUE when the scene exists
    pendingURLStateRef,     \* useRef: the stored ViewURLState
    isInitializedRef,       \* useViewURL useRef
    prevSweepRef,           \* useRef: index into sweeps, 0 is null
    currentResolution,      \* useState
    resolutionMode,         \* useState: "auto" or a tier
    fov,                    \* camera.fov of ThreeScene
    fovChangeTimeout,       \* the timer behind fovChangeTimeoutRef and its closure
    effectDeps,             \* dependencies the initial-sweep effect last ran with
    popStates,              \* number of popstate events so far
    \* the URL writing of useViewURL, driven by ThreeScene's animation loop
    updateTimeout,          \* the timer behind updateTimeoutRef and the state it will write
    sinceFrame,             \* milliseconds since the last animation frame
    visible,                \* the page is shown, so that animation frames are delivered
    pose,                   \* orientation of the camera (pitch and yaw)
    drags,                  \* number of drags of the camera so far
    torn,                   \* the React root has been unmounted
    \* the camera of ThreeScene
    cameraRef,              \* cameraRef.current is set
    cameraFov,              \* cameraRef.current.fov
    notifications           \* number of calls of onFovChange so far

viewerVars == <<phase, sweepUuid, resolution, currentSweepRef, currentResolutionRef,
          meshRef, upgradeTimeoutRef, requests, previewLoad, timer, upgradeLoad,
          loads, scene, meshMat, texCreated, matCreated, geomDisp, matDisp,
          texDisp, swapPc>>

tileVars == <<tPhase, tGrid, tUrls, tTile, tCanvas, tResult, tOrder>>

cubeVars == <<cPhase, cTier, cPending, cFailed, cFace, cValue, cDone, cResult>>

fnVars == <<fnArgs, fnDone, fnResult>>

appVars == <<location, mounted, fetching, sweeps, loading, error, currentSweep,
            sceneState, threeSceneRef, sceneRef, pendingURLStateRef,
            isInitializedRef, prevSweepRef, currentResolution, resolutionMode,
            fov, fovChangeTimeout, effectDeps, popStates>>

urlVars == <<updateTimeout, sinceFrame, visible, pose, drags, torn>>

sceneVars == <<cameraRef, cameraFov, notifications>>

vars == <<viewerVars, tileVars, cubeVars, fnVars, appVars, urlVars, sceneVars>>

----------------------------------------------------------------------------
\* Helpers translated from the source.

\* loadPanorama always loads the '512' tier first, whatever the target.
PreviewTierDirect(targetResolution) == targetResolution

PreviewTier(targetResolution) == "512"

\* if (targetResolution !== '512'): an upgrade is needed.
NeedsUpgradeAlways(targetResolution) == TRUE

NeedsUpgradeNever(targetResolution) == FALSE

NeedsUpgrade(targetResolution) == targetResolution # "512"

\* currentSweepRef.current !== sweepUuid || currentResolutionRef.current !== targetResolution
StaleSweepOnly(r) == currentSweepRef # requests[r].sweep

StaleResolutionOnly(r) == currentResolutionRef # requests[r].tier

Stale(r) ==
    \/ currentSweepRef # requests[r].sweep
    \/ currentResolutionRef # requests[r].tier

\* scene.remove(meshRef.current)
SceneRemove(sc, m) == sc \ {m}

\* meshRef.current.geometry.dispose()
DisposeGeometry(gd, m) == IF m = 0 THEN gd ELSE [gd EXCEPT ![m] = @ + 1]

\* material.forEach(mat => { mat.map.dispose(); mat.dispose() }) on the
\* material array the mesh references at that moment.
DisposeMaterials(d, mm, m) ==
    IF m = 0 \/ mm[m] = NoMat THEN d ELSE [d EXCEPT ![mm[m]] = @ + 1]

\* clearTimeout(upgradeTimeoutRef.current): cancels that timer if still pending.
ClearUpgradeTimeout(tm) ==
    IF upgradeTimeoutRef # 0 /\ tm[upgradeTimeoutRef] = "pending"
    THEN [tm EXCEPT ![upgradeTimeoutRef] = "cleared"]
    ELSE tm

\* meshRef.current.material = newMaterials
AssignMaterialsSkipped(mm, m, new) == mm

AssignMaterials(mm, m, new) == [mm EXCEPT ![m] = new]

Load(r, kind, s, t) == [req |-> r, kind |-> kind, sweep |-> s, tier |-> t]

----------------------------------------------------------------------------
ViewerInit ==
    /\ phase = "init"
    /\ sweepUuid = "undefined"
    /\ resolution = "undefined"
    /\ currentSweepRef = "undefined"
    /\ currentResolutionRef = "undefined"
    /\ meshRef = 0
    /\ upgradeTimeoutRef = 0
    /\ requests = <<>>
    /\ previewLoad = [r \in ReqIds |-> "none"]
    /\ timer = [r \in ReqIds |-> "none"]
    /\ upgradeLoad = [r \in ReqIds |-> "none"]
    /\ loads = <<>>
    /\ scene = {}
    /\ meshMat = [m \in ReqIds |-> NoMat]
    /\ texCreated = {}
    /\ matCreated = {}
    /\ geomDisp = [m \in ReqIds |-> 0]
    /\ matDisp = [x \in ResIds |-> 0]
    /\ texDisp = [x \in ResIds |-> 0]
    /\ swapPc = 0

\* The effect runs for new props (s, t): first mount, or a change of
\* sweepUuid / resolution.  React runs the previous effect's cleanup, then
\* the effect body, which calls loadPanorama up to its first await.
Request(s, t) ==
    /\ phase \in {"init", "mounted"}
    /\ swapPc = 0
    /\ Len(requests) < MaxRequests
    /\ <<s, t>> # <<sweepUuid, resolution>>
    /\ LET r == Len(requests) + 1
           cleaned == phase = "mounted"
           \* cleanup of the previous effect (lines 137-154)
           tm1 == IF cleaned THEN ClearUpgradeTimeout(timer) ELSE timer
           sc1 == IF cleaned THEN SceneRemove(scene, meshRef) ELSE scene
           gd1 == IF cleaned THEN DisposeGeometry(geomDisp, meshRef) ELSE geomDisp
           md1 == IF cleaned THEN DisposeMaterials(matDisp, meshMat, meshRef) ELSE matDisp
           td1 == IF cleaned THEN DisposeMaterials(texDisp, meshMat, meshRef) ELSE texDisp
           \* effect body (lines 127-134)
           changed == s # currentSweepRef \/ t # currentResolutionRef
       IN  /\ phase' = "mounted"
           /\ sweepUuid' = s
           /\ resolution' = t
           /\ requests' = Append(requests,
                  [sweep |-> s, tier |-> t,
                   \* history: what was displayed, and how far the previous
                   \* request's upgrade had got, when this request arrived
                   shown |-> scene,
                   prevUpgrade |-> IF r = 1 THEN "none" ELSE upgradeLoad[r - 1]])
           /\ timer' = tm1
           /\ IF changed
              THEN /\ currentSweepRef' = s
                   /\ currentResolutionRef' = t
                   \* loadPanorama, lines 36-46, then the call on line 50
                   /\ scene' = SceneRemove(sc1, meshRef)
                   /\ geomDisp' = DisposeGeometry(gd1, meshRef)
                   /\ matDisp' = DisposeMaterials(md1, meshMat, meshRef)
                   /\ texDisp' = DisposeMaterials(td1, meshMat, meshRef)
                   /\ loads' = Append(loads, Load(r, "pre", s, PreviewTier(t)))
                   /\ previewLoad' = [previewLoad EXCEPT ![r] = "inflight"]
              ELSE /\ scene' = sc1
                   /\ geomDisp' = gd1
                   /\ matDisp' = md1
                   /\ texDisp' = td1
                   /\ UNCHANGED <<currentSweepRef, currentResolutionRef, loads, previewLoad>>
    /\ UNCHANGED <<meshRef, upgradeTimeoutRef, upgradeLoad, meshMat,
                   texCreated, matCreated, swapPc>>
    /\ UNCHANGED <<tileVars, cubeVars, fnVars, appVars, urlVars, sceneVars>>

\* await loadCubemapTextures(sweepUuid, '512') resolves: lines 54-76.
PreviewResolve(r) ==
    /\ swapPc = 0
    /\ r \in 1..Len(requests)
    /\ previewLoad[r] = "inflight"
    /\ previewLoad' = [previewLoad EXCEPT ![r] = "ok"]
    /\ texCreated' = texCreated \cup {<<r, "pre">>}
    /\ matCreated' = matCreated \cup {<<r, "pre">>}
    /\ meshMat' = [meshMat EXCEPT ![r] = <<r, "pre">>]
    /\ meshRef' = r
    /\ scene' = scene \cup {r}
    /\ IF NeedsUpgrade(requests[r].tier)
       THEN /\ upgradeTimeoutRef' = r
            /\ timer' = [timer EXCEPT ![r] = "pending"]
       ELSE UNCHANGED <<upgradeTimeoutRef, timer>>
    /\ UNCHANGED <<phase, sweepUuid, resolution, currentSweepRef,
                   currentResolutionRef, requests, upgradeLoad, loads,
                   geomDisp, matDisp, texDisp, swapPc>>
    /\ UNCHANGED <<tileVars, cubeVars, fnVars, appVars, urlVars, sceneVars>>

\* await loadCubemapTextures(sweepUuid, '512') rejects: catch on lines 121-123.
PreviewReject(r) ==
    /\ swapPc = 0
    /\ r \in 1..Len(requests)
    /\ previewLoad[r] = "inflight"
    /\ previewLoad' = [previewLoad EXCEPT ![r] = "failed"]
    /\ UNCHANGED <<phase, sweepUuid, resolution, currentSweepRef,
                   currentResolutionRef, meshRef, upgradeTimeoutRef, requests,
                   timer, upgradeLoad, loads, scene, meshMat, texCreated,
                   matCreated, geomDisp, matDisp, texDisp, swapPc>>
    /\ UNCHANGED <<tileVars, cubeVars, fnVars, appVars, urlVars, sceneVars>>

\* The setTimeout callback starts: lines 77-85.
TimerFire(r) ==
    /\ swapPc = 0
    /\ r \in 1..Len(requests)
    /\ timer[r] = "pending"
    /\ timer' = [timer EXCEPT ![r] = "fired"]
    /\ IF Stale(r)
       THEN /\ upgradeLoad' = [upgradeLoad EXCEPT ![r] = "aborted"]
            /\ UNCHANGED loads
       ELSE /\ upgradeLoad' = [upgradeLoad EXCEPT ![r] = "inflight"]
            /\ loads' = Append(loads, Load(r, "up", requests[r].sweep, requests[r].tier))
    /\ UNCHANGED <<phase, sweepUuid, resolution, currentSweepRef,
                   currentResolutionRef, meshRef, upgradeTimeoutRef, requests,
                   previewLoad, scene, meshMat, texCreated, matCreated,
                   geomDisp, matDisp, texDisp, swapPc>>
    /\ UNCHANGED <<tileVars, cubeVars, fnVars, appVars, urlVars, sceneVars>>

\* await loadCubemapTextures(sweepUuid, targetResolution) resolves:
\* lines 88-110 (re-check, new materials, old materials disposed).
UpgradeResolve(r) ==
    /\ swapPc = 0
    /\ r \in 1..Len(requests)
    /\ upgradeLoad[r] = "inflight"
    /\ texCreated' = texCreated \cup {<<r, "up">>}
    /\ IF Stale(r)
       THEN /\ upgradeLoad' = [upgradeLoad EXCEPT ![r] = "stale"]
            /\ UNCHANGED <<matCreated, matDisp, texDisp, swapPc>>
       ELSE /\ upgradeLoad' = [upgradeLoad EXCEPT ![r] = "applied"]
            /\ matCreated' = matCreated \cup {<<r, "up">>}
            /\ IF meshRef # 0
               THEN /\ matDisp' = DisposeMaterials(matDisp, meshMat, meshRef)
                    /\ texDisp' = DisposeMaterials(texDisp, meshMat, meshRef)
                    /\ swapPc' = r
               ELSE UNCHANGED <<matDisp, texDisp, swapPc>>
    /\ UNCHANGED <<phase, sweepUuid, resolution, currentSweepRef,
                   currentResolutionRef, meshRef, upgradeTimeoutRef, requests,
                   previewLoad, timer, loads, scene, meshMat, geomDisp>>
    /\ UNCHANGED <<tileVars, cubeVars, fnVars, appVars, urlVars, sceneVars>>

\* The same callback continues synchronously: line 113.
SwapAssign ==
    /\ swapPc # 0
    /\ meshMat' = AssignMaterials(meshMat, meshRef, <<swapPc, "up">>)
    /\ swapPc' = 0
    /\ UNCHANGED <<phase, sweepUuid, resolution, currentSweepRef,
                   currentResolutionRef, meshRef, upgradeTimeoutRef, requests,
                   previewLoad, timer, upgradeLoad, loads, scene, texCreated,
                   matCreated, geomDisp, matDisp, texDisp>>
    /\ UNCHANGED <<tileVars, cubeVars, fnVars, appVars, urlVars, sceneVars>>

\* await loadCubemapTextures(sweepUuid, targetResolution) rejects: catch on lines 116-118.
UpgradeRejectRemovesMesh(r) ==
    /\ swapPc = 0
    /\ r \in 1..Len(requests)
    /\ upgradeLoad[r] = "inflight"
    /\ upgradeLoad' = [upgradeLoad EXCEPT ![r] = "failed"]
    /\ scene' = SceneRemove(scene, meshRef)
    /\ UNCHANGED <<phase, sweepUuid, resolution, currentSweepRef,
                   currentResolutionRef, meshRef, upgradeTimeoutRef, requests,
                   previewLoad, timer, loads, meshMat, texCreated,
                   matCreated, geomDisp, matDisp, texDisp, swapPc>>
    /\ UNCHANGED <<tileVars, cubeVars, fnVars, appVars, urlVars, sceneVars>>

UpgradeReject(r) ==
    /\ swapPc = 0
    /\ r \in 1..Len(requests)
    /\ upgradeLoad[r] = "inflight"
    /\ upgradeLoad' = [upgradeLoad EXCEPT ![r] = "failed"]
    /\ UNCHANGED <<phase, sweepUuid, resolution, currentSweepRef,
                   currentResolutionRef, meshRef, upgradeTimeoutRef, requests,
                   previewLoad, timer, loads, scene, meshMat, texCreated,
                   matCreated, geomDisp, matDisp, texDisp, swapPc>>
    /\ UNCHANGED <<tileVars, cubeVars, fnVars, appVars, urlVars, sceneVars>>

\* The effect runs again although neither sweepUuid nor resolution changed
\* (the scene prop did): React runs the previous effect's cleanup, lines
\* 137-154, then the body, whose test on lines 127-130 fails, so that
\* loadPanorama is not called.
Rerun ==
    /\ phase = "mounted"
    /\ swapPc = 0
    /\ Len(requests) < MaxRequests
    /\ sweepUuid = currentSweepRef
    /\ resolution = currentResolutionRef
    /\ requests' = Append(requests,
           [sweep |-> sweepUuid, tier |-> resolution, shown |-> scene,
            prevUpgrade |-> upgradeLoad[Len(requests)]])
    /\ timer' = ClearUpgradeTimeout(timer)
    /\ scene' = SceneRemove(scene, meshRef)
    /\ geomDisp' = DisposeGeometry(geomDisp, meshRef)
    /\ matDisp' = DisposeMaterials(matDisp, meshMat, meshRef)
    /\ texDisp' = DisposeMaterials(texDisp, meshMat, meshRef)
    /\ UNCHANGED <<phase, sweepUuid, resolution, currentSweepRef,
                   currentResolutionRef, meshRef, upgradeTimeoutRef,
                   previewLoad, upgradeLoad, loads, meshMat, texCreated,
                   matCreated, swapPc>>
    /\ UNCHANGED <<tileVars, cubeVars, fnVars, appVars, urlVars, sceneVars>>

\* The component unmounts: React runs the last effect's cleanup, lines 137-154.
Unmount ==
    /\ phase = "mounted"
    /\ swapPc = 0
    /\ phase' = "unmounted"
    /\ timer' = ClearUpgradeTimeout(timer)
    /\ scene' = SceneRemove(scene, meshRef)
    /\ geomDisp' = DisposeGeometry(geomDisp, meshRef)
    /\ matDisp' = DisposeMaterials(matDisp, meshMat, meshRef)
    /\ texDisp' = DisposeMaterials(texDisp, meshMat, meshRef)
    /\ UNCHANGED <<sweepUuid, resolution, currentSweepRef, currentResolutionRef,
                   meshRef, upgradeTimeoutRef, requests, previewLoad,
                   upgradeLoad, loads, meshMat, texCreated, matCreated, swapPc>>
    /\ UNCHANGED <<tileVars, cubeVars, fnVars, appVars, urlVars, sceneVars>>

----------------------------------------------------------------------------
\* textureLoader.ts: one call of loadTiledTexture.

\* const tileSize = 512
tileSize == 512

\* The six source faces of a Matterport cubemap.
Faces == 0..5

\* Tiers of the call that is followed tile by tile ('2k' differs from '1k'
\* only in having 16 tiles per face instead of 4).
TileTiers == {"512", "1k"}

getTilesPerSide(tier) ==
    CASE tier = "512" -> 1
      [] tier = "1k" -> 2
      [] tier = "2k" -> 4
      [] OTHER -> 1

\* `${basePath}/panoramas/${sanitizedUuid}/${resolution}_face${face}_${row}_${col}.jpg`
\* for the base path and identifier of the call.
TileUrl(tier, face, row, col) ==
    [tier |-> tier, face |-> face, row |-> row, col |-> col]

\* The tileUrls array built by the nested loops: row outer, col inner.
FaceTileUrls(tier, face) ==
    LET g == getTilesPerSide(tier)
    IN  [k \in 1..(g * g) |-> TileUrl(tier, face, (k - 1) \div g, (k - 1) % g)]

\* tileUrls.indexOf(url), zero-based: the first position holding url.
IndexOf(urls, url) ==
    (CHOOSE i \in 1..Len(urls) :
        urls[i] = url /\ \A j \in 1..(i - 1) : urls[j] # url) - 1

\* The canvas of a g x g face: one cell per tile-sized square, keyed by the
\* offset of its top-left corner; a new canvas is blank.
Cells(g) == {<<x * tileSize, y * tileSize>> : x \in 0..(g - 1), y \in 0..(g - 1)}

\* Content of a cell nothing was drawn into.
Blank == [kind |-> "blank"]

BlankCanvas(g) == [c \in Cells(g) |-> Blank]

\* The value a tile promise resolves with, from onload or onerror.
LoadResult(urls, g, url, success) ==
    [img |-> url,
     row |-> IndexOf(urls, url) \div g,
     col |-> IndexOf(urls, url) % g,
     success |-> success]

\* One iteration of loadResults.forEach: if (success) ctx.drawImage(img, x, y, ...)
DrawResultAlways(canvas, res) ==
    [canvas EXCEPT ![<<res.row * tileSize, res.col * tileSize>>] = res.img]

DrawResultUntransposed(canvas, res) ==
    IF res.success
    THEN [canvas EXCEPT ![<<res.col * tileSize, res.row * tileSize>>] = res.img]
    ELSE canvas

DrawResult(canvas, res) ==
    IF res.success
    THEN [canvas EXCEPT ![<<res.row * tileSize, res.col * tileSize>>] = res.img]
    ELSE canvas

\* loadResults.forEach(...), in array order from position i on.
RECURSIVE DrawAll(_, _, _)
DrawAll(canvas, results, i) ==
    IF i > Len(results)
    THEN canvas
    ELSE DrawAll(DrawResult(canvas, results[i]), results, i + 1)

NoTexture == [kind |-> "none"]

TileInit ==
    /\ tPhase = "idle"
    /\ tGrid = 0
    /\ tUrls = <<>>
    /\ tTile = <<>>
    /\ tCanvas = BlankCanvas(0)
    /\ tResult = NoTexture
    /\ tOrder = <<>>

\* loadTiledTexture(tileUrls, tilesPerSide, faceName) up to its await.  ctx
\* is what canvas.getContext('2d') returns: a context, or null.
TileCall(tier, face, ctx) ==
    /\ tPhase = "idle"
    /\ LET g == getTilesPerSide(tier)
           urls == FaceTileUrls(tier, face)
       IN  /\ tGrid' = g
           /\ tUrls' = urls
           /\ IF g = 1
              THEN \* loader.loadAsync(tileUrls[0]); no canvas is made
                   /\ ctx
                   /\ tPhase' = "pending"
                   /\ tTile' = <<"pending">>
                   /\ tCanvas' = BlankCanvas(0)
              ELSE IF ~ctx
              THEN \* throw new Error('Failed to get 2D context ...')
                   /\ tPhase' = "rejected"
                   /\ tTile' = <<>>
                   /\ tCanvas' = BlankCanvas(0)
              ELSE \* every tile image gets its src set
                   /\ tPhase' = "pending"
                   /\ tTile' = [k \in 1..Len(urls) |-> "pending"]
                   /\ tCanvas' = BlankCanvas(g)
    /\ UNCHANGED <<tResult, tOrder>>
    /\ UNCHANGED <<viewerVars, cubeVars, fnVars, appVars, urlVars, sceneVars>>

\* The image of tile i settles; when it is the last one, the awaiting code
\* runs on in the same turn of the event loop.
TileSettled(i, success) ==
    /\ tPhase = "pending"
    /\ i \in 1..Len(tTile)
    /\ tTile[i] = "pending"
    /\ LET tiles == [tTile EXCEPT ![i] = IF success THEN "loaded" ELSE "failed"]
           settled == \A k \in 1..Len(tiles) : tiles[k] # "pending"
           loadResults == [k \in 1..Len(tiles) |->
                             LoadResult(tUrls, tGrid, tUrls[k], tiles[k] = "loaded")]
           drawn == DrawAll(tCanvas, loadResults, 1)
       IN  /\ tTile' = tiles
           /\ tOrder' = Append(tOrder, i)
           /\ IF tGrid = 1
              THEN \* loadAsync resolves with the image texture or rejects
                   /\ tPhase' = IF success THEN "resolved" ELSE "rejected"
                   /\ tResult' = IF success
                                 THEN [kind |-> "image", img |-> tUrls[1]]
                                 ELSE tResult
                   /\ UNCHANGED tCanvas
              ELSE IF settled
              THEN \* Promise.all resolves; draw; new THREE.CanvasTexture(canvas)
                   /\ tPhase' = "resolved"
                   /\ tCanvas' = drawn
                   /\ tResult' = [kind |-> "canvas", cells |-> drawn]
              ELSE UNCHANGED <<tPhase, tCanvas, tResult>>
    /\ UNCHANGED <<tGrid, tUrls>>
    /\ UNCHANGED <<viewerVars, cubeVars, fnVars, appVars, urlVars, sceneVars>>

\* img.onload
ImgLoad(i) == TileSettled(i, TRUE)

\* img.onerror
ImgError(i) == TileSettled(i, FALSE)

TileNext ==
    \/ \E tier \in TileTiers, face \in Faces, ctx \in BOOLEAN :
          TileCall(tier, face, ctx)
    \/ \E i \in 1..Len(tTile) : ImgLoad(i)
    \/ \E i \in 1..Len(tTile) : ImgError(i)

----------------------------------------------------------------------------
\* textureLoader.ts: one call of loadCubemapTextures.

\* Bound: tile fetches of one cubemap call that fail.
MaxTileFailures == 1

\* const matterportFaceOrder = [4, 2, 0, 5, 1, 3]
matterportFaceOrder == <<4, 2, 0, 5, 1, 3>>

\* Positions of the array matterportFaceOrder.map(...) builds.
Positions == 1..Len(matterportFaceOrder)

\* Tiers of the call that is followed face by face.
CubeTiers == {"512", "1k"}

\* What the async callback of one face returns: the texture loadTiledTexture
\* made for that face, flipped by repeat.set(-1, 1).
FaceTexture(tier, face) ==
    [face |-> face, tier |-> tier, flipped |-> TRUE]

\* State of one face's promise after one of its tiles settled, `pending`
\* tiles being left: with one tile per side loadAsync decides, otherwise the
\* inner Promise.all resolves with the last tile, whatever the outcomes.
FaceOutcomeEager(g, pending, success) == "resolved"

FaceOutcome(g, pending, success) ==
    IF g = 1
    THEN IF success THEN "resolved" ELSE "rejected"
    ELSE IF pending = 0 THEN "resolved" ELSE "pending"

\* State of Promise.all over the six face promises.
PromiseAllSettled(faces) ==
    IF \A pos \in Positions : faces[pos] # "pending" THEN "resolved" ELSE "pending"

PromiseAll(faces) ==
    IF \E pos \in Positions : faces[pos] = "rejected" THEN "rejected"
    ELSE IF \A pos \in Positions : faces[pos] = "resolved" THEN "resolved"
    ELSE "pending"

\* The array Promise.all resolves with: the values in the order of the
\* promises passed in, not in the order they resolved.
PromiseAllValuesByCompletion(values, done) ==
    [i \in 1..Len(done) |-> values[done[i]]]

PromiseAllValues(values, done) == values

CubeInit ==
    /\ cPhase = "idle"
    /\ cTier = "undefined"
    /\ cPending = [pos \in Positions |-> 0]
    /\ cFailed = [pos \in Positions |-> 0]
    /\ cFace = [pos \in Positions |-> "idle"]
    /\ cValue = [pos \in Positions |-> NoTexture]
    /\ cDone = <<>>
    /\ cResult = <<>>

\* Tile fetches issued for the face at position pos while the call runs to
\* its await: every callback of the map runs loadTiledTexture up to its own
\* await, where each tile image has its src set (none without a context).
IssuedAtCallFirstFaceOnly(tier, pos, noCtx) ==
    IF pos \in noCtx \/ pos > 1
    THEN 0
    ELSE Len(FaceTileUrls(tier, matterportFaceOrder[pos]))

IssuedAtCall(tier, pos, noCtx) ==
    IF pos \in noCtx
    THEN 0
    ELSE Len(FaceTileUrls(tier, matterportFaceOrder[pos]))

RECURSIVE SeqSum(_)
SeqSum(q) == IF q = <<>> THEN 0 ELSE Head(q) + SeqSum(Tail(q))

\* loadCubemapTextures(sweepUuid, tier) up to its await: the callback
\* of every face runs loadTiledTexture up to its await, so every tile fetch
\* is issued here.  noCtx holds the positions whose canvas.getContext('2d')
\* returned null.
CubeCall(tier, noCtx) ==
    /\ cPhase = "idle"
    /\ LET g == getTilesPerSide(tier)
           faces == [pos \in Positions |->
                        IF pos \in noCtx THEN "rejected" ELSE "pending"]
       IN  /\ g = 1 => noCtx = {}
           /\ cTier' = tier
           /\ cFace' = faces
           /\ cPending' = [pos \in Positions |-> IssuedAtCall(tier, pos, noCtx)]
           /\ cPhase' = PromiseAll(faces)
    /\ UNCHANGED <<cFailed, cValue, cDone, cResult>>
    /\ UNCHANGED <<viewerVars, tileVars, fnVars, appVars, urlVars, sceneVars>>

\* One tile fetch of the face at position pos settles; the face promise
\* and the outer Promise.all follow in the same turn of the event loop.
CubeTileSettled(pos, success) ==
    /\ cPhase # "idle"
    /\ cFace[pos] = "pending"
    /\ cPending[pos] > 0
    /\ success \/ SeqSum(cFailed) < MaxTileFailures
    /\ LET g == getTilesPerSide(cTier)
           left == cPending[pos] - 1
           outcome == FaceOutcome(g, left, success)
           faces == [cFace EXCEPT ![pos] = outcome]
           values == IF outcome = "resolved"
                     THEN [cValue EXCEPT
                             ![pos] = FaceTexture(cTier, matterportFaceOrder[pos])]
                     ELSE cValue
           done == IF outcome = "resolved" THEN Append(cDone, pos) ELSE cDone
           all == IF cPhase = "pending" THEN PromiseAll(faces) ELSE cPhase
       IN  /\ cPending' = [cPending EXCEPT ![pos] = left]
           /\ cFailed' = [cFailed EXCEPT ![pos] = IF success THEN @ ELSE @ + 1]
           /\ cFace' = faces
           /\ cValue' = values
           /\ cDone' = done
           /\ cPhase' = all
           /\ cResult' = IF cPhase = "pending" /\ all = "resolved"
                         THEN PromiseAllValues(values, done)
                         ELSE cResult
    /\ UNCHANGED cTier
    /\ UNCHANGED <<viewerVars, tileVars, fnVars, appVars, urlVars, sceneVars>>

\* img.onload / loadAsync success of a tile of the face at position pos
CubeTileLoad(pos) == CubeTileSettled(pos, TRUE)

\* img.onerror / loadAsync failure of a tile of the face at position pos
CubeTileError(pos) == CubeTileSettled(pos, FALSE)

CubeNext ==
    \/ \E tier \in CubeTiers, noCtx \in SUBSET Positions :
          CubeCall(tier, noCtx)
    \/ \E pos \in Positions : CubeTileLoad(pos)
    \/ \E pos \in Positions : CubeTileError(pos)

----------------------------------------------------------------------------
\* Pure functions.  A string the code takes apart (an identifier) is a
\* sequence of one-character strings; a string the code only builds is a
\* string.

\* Identifiers passed as sweepUuid, with and without hyphens.
SweepUuids ==
    {<<"a", "b">>, <<"a", "-", "b">>, <<"-", "a", "b", "-">>,
     <<"c", "d">>, <<"c", "-", "-", "d">>}

\* Values of the basePath parameter.
BasePaths == {"/assets/BGMifUnvLxQ", "/8800-blue-lick/assets/BGMifUnvLxQ"}

\* The characters of a sequence as one string.
RECURSIVE Join(_)
Join(chars) == IF chars = <<>> THEN "" ELSE Head(chars) \o Join(Tail(chars))

IsNotHyphen(c) == c # "-"

\* sweepUuid.replace(/-/g, '')
RECURSIVE SanitizeFirstOnly(_)
SanitizeFirstOnly(uuid) ==
    IF uuid = <<>> THEN <<>>
    ELSE IF Head(uuid) = "-" THEN Tail(uuid)
    ELSE <<Head(uuid)>> \o SanitizeFirstOnly(Tail(uuid))

Sanitize(uuid) == SelectSeq(uuid, IsNotHyphen)

\* `${basePath}/panoramas/${sanitizedUuid}/${resolution}_face${face}_${row}_${col}.jpg`
TilePathColRow(basePath, sanitizedUuid, tier, face, row, col) ==
    basePath \o "/panoramas/" \o sanitizedUuid \o "/" \o tier \o "_face"
        \o ToString(face) \o "_" \o ToString(col) \o "_" \o ToString(row) \o ".jpg"

TilePath(basePath, sanitizedUuid, tier, face, row, col) ==
    basePath \o "/panoramas/" \o sanitizedUuid \o "/" \o tier \o "_face"
        \o ToString(face) \o "_" \o ToString(row) \o "_" \o ToString(col) \o ".jpg"

\* for (let col = 0; col < tilesPerSide; col++) tiles.push(...)
RECURSIVE PushCols(_, _, _, _, _, _, _, _)
PushCols(tiles, basePath, sanitizedUuid, tier, face, row, col, tilesPerSide) ==
    IF col < tilesPerSide
    THEN PushCols(Append(tiles, TilePath(basePath, sanitizedUuid, tier, face, row, col)),
                  basePath, sanitizedUuid, tier, face, row, col + 1, tilesPerSide)
    ELSE tiles

\* for (let row = 0; row < tilesPerSide; row++) { for (let col ...) }
RECURSIVE PushRows(_, _, _, _, _, _, _)
PushRows(tiles, basePath, sanitizedUuid, tier, face, row, tilesPerSide) ==
    IF row < tilesPerSide
    THEN PushRows(PushCols(tiles, basePath, sanitizedUuid, tier, face, row, 0, tilesPerSide),
                  basePath, sanitizedUuid, tier, face, row + 1, tilesPerSide)
    ELSE tiles

getTilePaths(uuid, tier, face, basePath) ==
    PushRows(<<>>, basePath, Join(Sanitize(uuid)), tier, face, 0,
             getTilesPerSide(tier))

\* The tileUrls arrays loadCubemapTextures builds, one per position of
\* matterportFaceOrder, in the order of the map.
cubemapTileUrlsUnsanitized(uuid, tier, basePath) ==
    LET sanitizedUuid == Join(uuid)
    IN  [pos \in Positions |->
            PushRows(<<>>, basePath, sanitizedUuid, tier, matterportFaceOrder[pos], 0,
                     getTilesPerSide(tier))]

cubemapTileUrls(uuid, tier, basePath) ==
    LET sanitizedUuid == Join(Sanitize(uuid))
    IN  [pos \in Positions |->
            PushRows(<<>>, basePath, sanitizedUuid, tier, matterportFaceOrder[pos], 0,
                     getTilesPerSide(tier))]

\* useViewURL.ts: formatUUID.

\* clean.slice(from, to)
Slice(chars, from, to) == SubSeq(chars, from + 1, to)

formatUUIDKeepsHyphens(uuid) ==
    LET clean == uuid
    IN  IF Len(clean) # 32
        THEN uuid
        ELSE Slice(clean, 0, 8) \o <<"-">> \o Slice(clean, 8, 12) \o <<"-">>
                \o Slice(clean, 12, 16) \o <<"-">> \o Slice(clean, 16, 20)
                \o <<"-">> \o Slice(clean, 20, 32)

formatUUID(uuid) ==
    LET clean == SelectSeq(uuid, IsNotHyphen)
    IN  IF Len(clean) # 32
        THEN uuid
        ELSE Slice(clean, 0, 8) \o <<"-">> \o Slice(clean, 8, 12) \o <<"-">>
                \o Slice(clean, 12, 16) \o <<"-">> \o Slice(clean, 16, 20)
                \o <<"-">> \o Slice(clean, 20, 32)

HexDigits ==
    <<"0", "1", "2", "3", "4", "5", "6", "7", "8", "9", "a", "b", "c", "d", "e", "f">>

\* n hexadecimal digits.
Digits(n) == [i \in 1..n |-> HexDigits[((i * 7) % 16) + 1]]

\* chars with a hyphen put in after each of the first k characters, k in spots.
RECURSIVE Hyphenated(_, _, _)
Hyphenated(chars, spots, k) ==
    (IF k \in spots THEN <<"-">> ELSE <<>>)
        \o (IF chars = <<>>
            THEN <<>>
            ELSE <<Head(chars)>> \o Hyphenated(Tail(chars), spots, k + 1))

\* Places where the inputs of formatUUID carry hyphens: the canonical
\* offsets, the two ends and one odd place.
HyphenSpots == {0, 5, 8, 12, 16, 20, 32}

\* Lengths of the inputs of formatUUID without their hyphens.
UuidLengths == {0, 31, 32, 33}

UuidInputs ==
    {Hyphenated(Digits(n), spots, 0) : n \in UuidLengths, spots \in SUBSET HyphenSpots}

\* lod.ts: calculateRequiredResolution, from the projected face size on.
\* A JavaScript number is an integer number of pixels or NaN.
Num(v) == [nan |-> FALSE, v |-> v]

NaN == [nan |-> TRUE, v |-> 0]

\* Math.max(a, b)
MathMax(a, b) ==
    IF a.nan \/ b.nan THEN NaN ELSE IF a.v >= b.v THEN a ELSE b

\* a < k for a number a and a literal k
LessThan(a, k) == ~a.nan /\ a.v < k

\* a <= k, what a `<=` in place of the `<` would compute
AtMost(a, k) == ~a.nan /\ a.v <= k

calculateRequiredResolutionInclusive(faceWidthPixels, faceHeightPixels) ==
    LET maxFacePixels == MathMax(faceWidthPixels, faceHeightPixels)
    IN  IF AtMost(maxFacePixels, 600) THEN "512"
        ELSE IF AtMost(maxFacePixels, 1200) THEN "1k"
        ELSE "2k"

calculateRequiredResolution(faceWidthPixels, faceHeightPixels) ==
    LET maxFacePixels == MathMax(faceWidthPixels, faceHeightPixels)
    IN  IF LessThan(maxFacePixels, 600) THEN "512"
        ELSE IF LessThan(maxFacePixels, 1200) THEN "1k"
        ELSE "2k"

\* Projected face sizes tried, in pixels.
FacePixels == {Num(v) : v \in {0, 1, 599, 600, 601, 1199, 1200, 1201, 4096}} \cup {NaN}

FnArgs ==
    [fn : {"getTilePaths"}, sweepUuid : SweepUuids, tier : Tiers,
     face : Faces, basePath : BasePaths]
    \cup [fn : {"loadCubemapTextures"}, sweepUuid : SweepUuids, tier : Tiers,
          basePath : BasePaths]
    \cup [fn : {"formatUUID"}, uuid : UuidInputs]
    \cup [fn : {"calculateRequiredResolution"},
          faceWidthPixels : FacePixels, faceHeightPixels : FacePixels]

NoArgs == [fn |-> "none"]

NoResult == <<>>

FnIdle ==
    /\ fnArgs = NoArgs
    /\ fnDone = FALSE
    /\ fnResult = NoResult

FnCalled ==
    /\ fnArgs \in FnArgs
    /\ fnDone = FALSE
    /\ fnResult = NoResult

Return(fn, value) ==
    /\ fnArgs.fn = fn
    /\ ~fnDone
    /\ fnDone' = TRUE
    /\ fnResult' = value
    /\ UNCHANGED fnArgs
    /\ UNCHANGED <<viewerVars, tileVars, cubeVars, appVars, urlVars, sceneVars>>

GetTilePaths ==
    /\ fnArgs.fn = "getTilePaths"
    /\ Return("getTilePaths",
              getTilePaths(fnArgs.sweepUuid, fnArgs.tier, fnArgs.face, fnArgs.basePath))

\* loadCubemapTextures as far as its tile URLs go.
LoadCubemapUrls ==
    /\ fnArgs.fn = "loadCubemapTextures"
    /\ Return("loadCubemapTextures",
              cubemapTileUrls(fnArgs.sweepUuid, fnArgs.tier, fnArgs.basePath))

FormatUUID ==
    /\ fnArgs.fn = "formatUUID"
    /\ Return("formatUUID", formatUUID(fnArgs.uuid))

CalculateRequiredResolution ==
    /\ fnArgs.fn = "calculateRequiredResolution"
    /\ Return("calculateRequiredResolution",
              calculateRequiredResolution(fnArgs.faceWidthPixels,
                                          fnArgs.faceHeightPixels))

FnNext ==
    \/ GetTilePaths
    \/ LoadCubemapUrls
    \/ FormatUUID
    \/ CalculateRequiredResolution

----------------------------------------------------------------------------
\* The App component (App.tsx), its hooks useSweepsData and useViewURL, and
\* the ThreeScene child as far as App depends on it.

MaxPopStates == 1

\* A URL parameter: URLSearchParams.get returns null or a string.
NoParam == [has |-> FALSE, v |-> <<>>]

Param(chars) == [has |-> TRUE, v |-> chars]

\* A JavaScript string is falsy when it is null or empty.
Truthy(p) == p.has /\ p.v # <<>>

\* sweep_uuid of the sweeps of sweeps.json, in the 8-4-4-4-12 form.
SweepId(k) == formatUUID([i \in 1..32 |-> HexDigits[((i * k) % 16) + 1]])

\* The sweep lists the fetch of sweeps.json can deliver.
SweepLists == {<<>>, <<SweepId(3), SweepId(5)>>, <<SweepId(5), SweepId(3)>>}

\* Values of the sweep parameter: a listed sweep without hyphens, a listed
\* sweep with hyphens, a sweep that is in no list.
UrlSweeps == {Sanitize(SweepId(3)), SweepId(5), SweepId(7)}

Url(sweepParam, position, angle) ==
    [sweep |-> sweepParam, x |-> position, y |-> position, z |-> position,
     pitch |-> angle, yaw |-> angle]

NoUrlParams == Url(NoParam, NoParam, NoParam)

\* window.location.search: no parameter, a full view state, a sweep alone,
\* a view state whose pitch and yaw are empty.
Urls ==
    {NoUrlParams}
    \cup {Url(Param(s), Param(<<"0">>), Param(<<"0">>)) : s \in UrlSweeps}
    \cup {Url(Param(s), NoParam, NoParam) : s \in {Sanitize(SweepId(3)), SweepId(5)}}
    \cup {Url(Param(SweepId(5)), Param(<<"0">>), Param(<<>>))}

\* useViewURL.ts line 56: sweep && x && y && z && pitch && yaw
MountRestores(url) ==
    /\ Truthy(url.sweep) /\ Truthy(url.x) /\ Truthy(url.y) /\ Truthy(url.z)
    /\ Truthy(url.pitch) /\ Truthy(url.yaw)

\* useViewURL.ts line 115: sweep && x && y && z && pitch !== null && yaw !== null
PopStateRestores(url) ==
    /\ Truthy(url.sweep) /\ Truthy(url.x) /\ Truthy(url.y) /\ Truthy(url.z)
    /\ url.pitch.has /\ url.yaw.has

\* The ViewURLState handed to onStateFromURL; null is NoState.
NoState == [set |-> FALSE, sweep |-> <<>>]

ViewURLState(url) == [set |-> TRUE, sweep |-> formatUUID(url.sweep.v)]

\* sweeps.find((s) => s.sweep_uuid === uuid): the index of the first match, 0
\* for undefined.
Find(list, uuid) ==
    IF \E i \in 1..Len(list) : list[i] = uuid
    THEN CHOOSE i \in 1..Len(list) :
             list[i] = uuid /\ \A j \in 1..(i - 1) : list[j] # uuid
    ELSE 0

\* applyURLState: the value of currentSweep after the call.
applyURLState(state, list, current) ==
    IF Find(list, state.sweep) # 0 THEN Find(list, state.sweep) ELSE current

\* handleStateFromURL: the values of pendingURLStateRef and currentSweep
\* after the call.
handleStateFromURLForgetsEarly(state, list, pending, current) ==
    IF Len(list) = 0
    THEN [pending |-> pending, current |-> current]
    ELSE [pending |-> state, current |-> applyURLState(state, list, current)]

handleStateFromURL(state, list, pending, current) ==
    IF Len(list) = 0
    THEN [pending |-> state, current |-> current]
    ELSE [pending |-> state, current |-> applyURLState(state, list, current)]

\* The initial-sweep effect without pending URL state: the sweep named by
\* the raw sweep parameter, else the first sweep.
InitialSweepLast(sweepParam, list) ==
    IF Truthy(sweepParam) /\ Find(list, sweepParam.v) # 0
    THEN Find(list, sweepParam.v)
    ELSE Len(list)

InitialSweep(sweepParam, list) ==
    IF Truthy(sweepParam) /\ Find(list, sweepParam.v) # 0
    THEN Find(list, sweepParam.v)
    ELSE 1

\* ThreeScene: FOV constraints and the wheel step.
BASE_FOV == 75
MIN_FOV == 30
MAX_FOV == 110
WheelStep == 5

Min(a, b) == IF a < b THEN a ELSE b

Max(a, b) == IF a > b THEN a ELSE b

Clamp(f) == Max(MIN_FOV, Min(MAX_FOV, f))

\* window.innerHeight
innerHeight == 600

\* 1000 * Math.tan(fov * (Math.PI / 180) / 2), rounded, for the FOVs the
\* wheel reaches.
TanHalfMilli(f) ==
    CASE f = 30 -> 268 [] f = 35 -> 315 [] f = 40 -> 364 [] f = 45 -> 414
      [] f = 50 -> 466 [] f = 55 -> 521 [] f = 60 -> 577 [] f = 65 -> 637
      [] f = 70 -> 700 [] f = 75 -> 767 [] f = 80 -> 839 [] f = 85 -> 916
      [] f = 90 -> 1000 [] f = 95 -> 1091 [] f = 100 -> 1192
      [] f = 105 -> 1303 [] f = 110 -> 1428

\* lod.ts lines 25-46: a face projects to innerHeight / tan(fov / 2) pixels
\* in both directions (the aspect ratio cancels).
FacePixelsAt(f) == Num((innerHeight * 1000) \div TanHalfMilli(f))

RequiredResolution(f) ==
    calculateRequiredResolution(FacePixelsAt(f), FacePixelsAt(f))

NoTimeout == [pending |-> FALSE, required |-> "512", seen |-> "512"]

Modes == {"auto"} \cup Tiers

\* Before the first commit.
AppUnmounted ==
    /\ mounted = FALSE
    /\ fetching = FALSE
    /\ sweeps = <<>>
    /\ loading = TRUE
    /\ error = FALSE
    /\ currentSweep = 0
    /\ sceneState = FALSE
    /\ threeSceneRef = FALSE
    /\ sceneRef = FALSE
    /\ pendingURLStateRef = NoState
    /\ isInitializedRef = FALSE
    /\ prevSweepRef = 0
    /\ currentResolution = "512"
    /\ resolutionMode = "auto"
    /\ fov = BASE_FOV
    /\ fovChangeTimeout = NoTimeout
    /\ effectDeps = <<>>
    /\ popStates = 0

AppIdle == location = NoUrlParams /\ AppUnmounted

\* The page is opened at any of the URLs.
AppStart == location \in Urls /\ AppUnmounted

\* Dependencies of the initial-sweep effect.
Deps == <<sweeps, sceneState, currentSweep>>

\* PanoramaViewer is rendered, and its props differ from those its effect
\* last ran with.
ViewerPending ==
    /\ sceneState
    /\ currentSweep # 0
    /\ <<Join(sweeps[currentSweep]), currentResolution>> # <<sweepUuid, resolution>>

\* The reset-resolution effect has work to do.
ResetPending == currentSweep # 0 /\ currentSweep # prevSweepRef

\* The initial-sweep effect has to run again.
InitialPending == mounted /\ effectDeps # Deps

EffectPending == ViewerPending \/ ResetPending \/ InitialPending

\* ThreeScene has called setSceneReady and has not rendered again yet.
RenderPending == sceneRef /\ ~sceneState

\* First commit of App, still loading: the effects run in the order of
\* their declaration.  The sweeps fetch starts, the initial-sweep effect
\* finds no sweeps, and useViewURL parses the URL.
Mount ==
    /\ ~mounted
    /\ mounted' = TRUE
    /\ fetching' = TRUE
    /\ effectDeps' = Deps
    /\ isInitializedRef' = TRUE
    /\ LET after == IF ~isInitializedRef /\ MountRestores(location)
                    THEN handleStateFromURL(ViewURLState(location), sweeps,
                                            pendingURLStateRef, currentSweep)
                    ELSE [pending |-> pendingURLStateRef, current |-> currentSweep]
       IN  /\ pendingURLStateRef' = after.pending
           /\ currentSweep' = after.current
    /\ UNCHANGED <<location, sweeps, loading, error, sceneState, threeSceneRef,
                   sceneRef, prevSweepRef, currentResolution, resolutionMode,
                   fov, fovChangeTimeout, popStates>>
    /\ UNCHANGED <<viewerVars, tileVars, cubeVars, fnVars, urlVars, sceneVars>>

\* The fetch of sweeps.json succeeds.  App renders ThreeScene, whose ref
\* callback finds no scene yet; ThreeScene's effect creates the scene and
\* calls setSceneReady.
SweepsResolve(list) ==
    /\ fetching
    /\ fetching' = FALSE
    /\ sweeps' = list
    /\ loading' = FALSE
    /\ threeSceneRef' = TRUE
    /\ sceneRef' = TRUE
    /\ UNCHANGED <<location, mounted, error, currentSweep, sceneState,
                   pendingURLStateRef, isInitializedRef, prevSweepRef,
                   currentResolution, resolutionMode, fov, fovChangeTimeout,
                   effectDeps, popStates>>
    /\ UNCHANGED <<viewerVars, tileVars, cubeVars, fnVars, urlVars, sceneVars>>

\* The fetch fails: App shows the error and never renders ThreeScene.
SweepsReject ==
    /\ fetching
    /\ fetching' = FALSE
    /\ error' = TRUE
    /\ loading' = FALSE
    /\ UNCHANGED <<location, mounted, sweeps, currentSweep, sceneState,
                   threeSceneRef, sceneRef, pendingURLStateRef,
                   isInitializedRef, prevSweepRef, currentResolution,
                   resolutionMode, fov, fovChangeTimeout, effectDeps, popStates>>
    /\ UNCHANGED <<viewerVars, tileVars, cubeVars, fnVars, urlVars, sceneVars>>

\* ThreeScene renders with sceneReady: its handle is made anew and App's
\* ref callback finds the scene.
SceneReady ==
    /\ RenderPending
    /\ ~EffectPending
    /\ sceneState' = TRUE
    /\ UNCHANGED <<location, mounted, fetching, sweeps, loading, error,
                   currentSweep, threeSceneRef, sceneRef, pendingURLStateRef,
                   isInitializedRef, prevSweepRef, currentResolution,
                   resolutionMode, fov, fovChangeTimeout, effectDeps, popStates>>
    /\ UNCHANGED <<viewerVars, tileVars, cubeVars, fnVars, urlVars, sceneVars>>

\* The effect of PanoramaViewer runs for the props App renders it with;
\* effects of a child run before those of its parent.
PanoramaViewerEffect ==
    /\ ViewerPending
    /\ Request(Join(sweeps[currentSweep]), currentResolution)

\* Reset resolution to 512 when navigating.
ResetResolutionEffect ==
    /\ ~ViewerPending
    /\ ResetPending
    /\ currentResolution' = "512"
    /\ prevSweepRef' = currentSweep
    /\ UNCHANGED <<location, mounted, fetching, sweeps, loading, error,
                   currentSweep, sceneState, threeSceneRef, sceneRef,
                   pendingURLStateRef, isInitializedRef, resolutionMode, fov,
                   fovChangeTimeout, effectDeps, popStates>>
    /\ UNCHANGED <<viewerVars, tileVars, cubeVars, fnVars, urlVars, sceneVars>>

\* Set initial sweep - either from URL (pending) or default to first sweep.
InitialSweepEffect ==
    /\ ~ViewerPending
    /\ ~ResetPending
    /\ InitialPending
    /\ effectDeps' = Deps
    /\ IF Len(sweeps) > 0 /\ sceneState /\ currentSweep = 0
       THEN IF pendingURLStateRef.set
            THEN /\ currentSweep' = applyURLState(pendingURLStateRef, sweeps, currentSweep)
                 /\ pendingURLStateRef' = NoState
            ELSE /\ currentSweep' = InitialSweep(location.sweep, sweeps)
                 /\ UNCHANGED pendingURLStateRef
       ELSE UNCHANGED <<currentSweep, pendingURLStateRef>>
    /\ UNCHANGED <<location, mounted, fetching, sweeps, loading, error,
                   sceneState, threeSceneRef, sceneRef, isInitializedRef,
                   prevSweepRef, currentResolution, resolutionMode, fov,
                   fovChangeTimeout, popStates>>
    /\ UNCHANGED <<viewerVars, tileVars, cubeVars, fnVars, urlVars, sceneVars>>

\* The browser goes back or forward to url: handlePopState.
PopState(url) ==
    /\ mounted
    /\ ~EffectPending
    /\ popStates < MaxPopStates
    /\ popStates' = popStates + 1
    /\ location' = url
    /\ LET after == IF PopStateRestores(url)
                    THEN handleStateFromURL(ViewURLState(url), sweeps,
                                            pendingURLStateRef, currentSweep)
                    ELSE [pending |-> pendingURLStateRef, current |-> currentSweep]
       IN  /\ pendingURLStateRef' = after.pending
           /\ currentSweep' = after.current
    /\ UNCHANGED <<mounted, fetching, sweeps, loading, error, sceneState,
                   threeSceneRef, sceneRef, isInitializedRef, prevSweepRef,
                   currentResolution, resolutionMode, fov, fovChangeTimeout,
                   effectDeps>>
    /\ UNCHANGED <<viewerVars, tileVars, cubeVars, fnVars, urlVars, sceneVars>>

\* handleFovChange: the debounce timer and what its callback has closed over.
handleFovChangeKeepsFirst(f) ==
    IF resolutionMode # "auto" \/ fovChangeTimeout.pending
    THEN fovChangeTimeout
    ELSE [pending |-> TRUE, required |-> RequiredResolution(f),
          seen |-> currentResolution]

handleFovChange(f) ==
    IF resolutionMode # "auto"
    THEN fovChangeTimeout
    ELSE [pending |-> TRUE, required |-> RequiredResolution(f),
          seen |-> currentResolution]

\* ThreeScene's handleWheel; delta is 1 or -1.
Wheel(delta) ==
    /\ sceneRef
    /\ ~EffectPending
    /\ LET newFov == Clamp(fov + delta * WheelStep)
       IN  /\ newFov # fov
           /\ fov' = newFov
           /\ fovChangeTimeout' = handleFovChange(newFov)
    /\ UNCHANGED <<location, mounted, fetching, sweeps, loading, error,
                   currentSweep, sceneState, threeSceneRef, sceneRef,
                   pendingURLStateRef, isInitializedRef, prevSweepRef,
                   currentResolution, resolutionMode, effectDeps, popStates>>
    /\ UNCHANGED <<viewerVars, tileVars, cubeVars, fnVars, urlVars, sceneVars>>

\* The 300 ms timer of handleFovChange fires; no render is scheduled by then.
FovTimeout ==
    /\ fovChangeTimeout.pending
    /\ ~EffectPending
    /\ ~RenderPending
    /\ fovChangeTimeout' = NoTimeout
    /\ currentResolution' =
           IF fovChangeTimeout.required # fovChangeTimeout.seen
           THEN fovChangeTimeout.required
           ELSE currentResolution
    /\ UNCHANGED <<location, mounted, fetching, sweeps, loading, error,
                   currentSweep, sceneState, threeSceneRef, sceneRef,
                   pendingURLStateRef, isInitializedRef, prevSweepRef,
                   resolutionMode, fov, effectDeps, popStates>>
    /\ UNCHANGED <<viewerVars, tileVars, cubeVars, fnVars, urlVars, sceneVars>>

\* NavigationControls, rendered next to PanoramaViewer, reports a new mode.
handleResolutionModeChange(newMode) ==
    /\ sceneState
    /\ currentSweep # 0
    /\ ~EffectPending
    /\ resolutionMode' = newMode
    /\ currentResolution' =
           IF newMode = "auto"
           THEN IF threeSceneRef THEN RequiredResolution(fov) ELSE currentResolution
           ELSE newMode
    /\ UNCHANGED <<location, mounted, fetching, sweeps, loading, error,
                   currentSweep, sceneState, threeSceneRef, sceneRef,
                   pendingURLStateRef, isInitializedRef, prevSweepRef, fov,
                   fovChangeTimeout, effectDeps, popStates>>
    /\ UNCHANGED <<viewerVars, tileVars, cubeVars, fnVars, urlVars, sceneVars>>

AppNext ==
    \/ Mount
    \/ \E list \in SweepLists : SweepsResolve(list)
    \/ SweepsReject
    \/ SceneReady
    \/ PanoramaViewerEffect
    \/ ResetResolutionEffect
    \/ InitialSweepEffect
    \/ \E url \in Urls : PopState(url)
    \/ \E delta \in {-1, 1} : Wheel(delta)
    \/ FovTimeout
    \/ \E newMode \in Modes : handleResolutionModeChange(newMode)

\* Identifiers NavigationControls and Minimap may hand to onNavigate: the
\* listed sweeps and one that is in no list.
NavTargets == {SweepId(3), SweepId(5), SweepId(7)}

\* handleNavigate: the values of currentSweep and currentResolution after
\* the call.
NavigateKeepsResolution(uuid, list, current, res) ==
    IF Find(list, uuid) # 0
    THEN [current |-> Find(list, uuid), resolution |-> res]
    ELSE [current |-> current, resolution |-> res]

Navigate(uuid, list, current, res) ==
    IF Find(list, uuid) # 0
    THEN [current |-> Find(list, uuid), resolution |-> "512"]
    ELSE [current |-> current, resolution |-> res]

\* NavigationControls or Minimap, rendered next to PanoramaViewer, asks for
\* the sweep uuid.
handleNavigate(uuid) ==
    /\ sceneState
    /\ currentSweep # 0
    /\ ~EffectPending
    /\ currentSweep' = Navigate(uuid, sweeps, currentSweep, currentResolution).current
    /\ currentResolution' =
           Navigate(uuid, sweeps, currentSweep, currentResolution).resolution
    /\ UNCHANGED <<location, mounted, fetching, sweeps, loading, error,
                   sceneState, threeSceneRef, sceneRef, pendingURLStateRef,
                   isInitializedRef, prevSweepRef, resolutionMode, fov,
                   fovChangeTimeout, effectDeps, popStates>>
    /\ UNCHANGED <<viewerVars, tileVars, cubeVars, fnVars, urlVars, sceneVars>>

\* App, opened at a URL without parameters, with the navigation of its
\* controls and no browser history.
NavNext ==
    \/ Mount
    \/ \E list \in SweepLists : SweepsResolve(list)
    \/ SweepsReject
    \/ SceneReady
    \/ PanoramaViewerEffect
    \/ ResetResolutionEffect
    \/ InitialSweepEffect
    \/ \E delta \in {-1, 1} : Wheel(delta)
    \/ FovTimeout
    \/ \E newMode \in Modes : handleResolutionModeChange(newMode)
    \/ \E uuid \in NavTargets : handleNavigate(uuid)

\* App in auto mode throughout: as NavNext, without the mode control.
BurstNext ==
    \/ Mount
    \/ \E list \in SweepLists : SweepsResolve(list)
    \/ SweepsReject
    \/ SceneReady
    \/ PanoramaViewerEffect
    \/ ResetResolutionEffect
    \/ InitialSweepEffect
    \/ \E delta \in {-1, 1} : Wheel(delta)
    \/ FovTimeout
    \/ \E uuid \in NavTargets : handleNavigate(uuid)

\* useViewURL's updateURL, called by handleCameraChange on every frame of
\* ThreeScene's animation loop.

MaxDrags == 1

\* const DEBOUNCE_MS = 150
DEBOUNCE_MS == 150

\* Milliseconds between two animation frames of a 60 Hz display.
FramePeriod == 16

\* Orientations the user can drag the camera to.
Poses == {0, 1}

NoUrlTimeout == [pending |-> FALSE, elapsed |-> 0, sweep |-> <<>>, pose |-> 0]

UrlIdle ==
    /\ updateTimeout = NoUrlTimeout
    /\ sinceFrame = 0
    /\ visible = TRUE
    /\ pose = 0
    /\ drags = 0
    /\ torn = FALSE

\* The URL the timer callback of updateURL writes: sweep, x, y, z, pitch and
\* yaw (the fov parameter, which nothing modelled reads, is left out).
WrittenUrl(uuid, p) ==
    Url(Param(formatUUID(uuid)), Param(<<"0">>), Param(<<ToString(p)>>))

\* The animation loop of ThreeScene is running.
Animating == sceneRef /\ visible

\* updateURL: the timer after the call.
updateURL(uuid, p) == [pending |-> TRUE, elapsed |-> 0, sweep |-> uuid, pose |-> p]

\* One millisecond passes: no frame and no timer is overdue.
Tick ==
    /\ mounted
    /\ Animating \/ updateTimeout.pending
    /\ Animating => sinceFrame < FramePeriod
    /\ updateTimeout.pending => updateTimeout.elapsed < DEBOUNCE_MS
    /\ sinceFrame' = IF Animating THEN sinceFrame + 1 ELSE sinceFrame
    /\ updateTimeout' =
           IF updateTimeout.pending
           THEN [updateTimeout EXCEPT !.elapsed = @ + 1]
           ELSE updateTimeout
    /\ UNCHANGED <<visible, pose, drags, torn>>
    /\ UNCHANGED <<viewerVars, tileVars, cubeVars, fnVars, appVars, sceneVars>>

\* animate: the frame callback reports the camera to handleCameraChange,
\* which calls updateURL when a sweep is current.
Frame ==
    /\ Animating
    /\ ~EffectPending
    /\ sinceFrame = FramePeriod
    /\ sinceFrame' = 0
    /\ updateTimeout' =
           IF currentSweep = 0
           THEN updateTimeout
           ELSE updateURL(sweeps[currentSweep], pose)
    /\ UNCHANGED <<visible, pose, drags, torn>>
    /\ UNCHANGED <<viewerVars, tileVars, cubeVars, fnVars, appVars, sceneVars>>

\* The timer of updateURL fires: history.replaceState.
UrlTimeout ==
    /\ updateTimeout.pending
    /\ updateTimeout.elapsed = DEBOUNCE_MS
    /\ location' = WrittenUrl(updateTimeout.sweep, updateTimeout.pose)
    /\ updateTimeout' = NoUrlTimeout
    /\ UNCHANGED <<mounted, fetching, sweeps, loading, error, currentSweep,
                   sceneState, threeSceneRef, sceneRef, pendingURLStateRef,
                   isInitializedRef, prevSweepRef, currentResolution,
                   resolutionMode, fov, fovChangeTimeout, effectDeps, popStates>>
    /\ UNCHANGED <<sinceFrame, visible, pose, drags, torn>>
    /\ UNCHANGED <<viewerVars, tileVars, cubeVars, fnVars, sceneVars>>

\* The user drags the camera to another orientation (OrbitControls).
Drag(p) ==
    /\ Animating
    /\ drags < MaxDrags
    /\ p # pose
    /\ pose' = p
    /\ drags' = drags + 1
    /\ UNCHANGED <<updateTimeout, sinceFrame, visible, torn>>
    /\ UNCHANGED <<viewerVars, tileVars, cubeVars, fnVars, appVars, sceneVars>>

\* The page goes to the background: the browser delivers no animation frames.
Hide ==
    /\ mounted
    /\ visible
    /\ visible' = FALSE
    /\ UNCHANGED <<updateTimeout, sinceFrame, pose, drags, torn>>
    /\ UNCHANGED <<viewerVars, tileVars, cubeVars, fnVars, appVars, sceneVars>>

\* The page comes back: the next frame is one period away.
Show ==
    /\ mounted
    /\ ~visible
    /\ visible' = TRUE
    /\ sinceFrame' = 0
    /\ UNCHANGED <<updateTimeout, pose, drags, torn>>
    /\ UNCHANGED <<viewerVars, tileVars, cubeVars, fnVars, appVars, sceneVars>>

\* App unmounts: the cleanup of useViewURL clears the URL timer, that of
\* ThreeScene cancels the animation frame, that of PanoramaViewer (lines
\* 137-154) detaches and disposes the mesh; the state of the instance is gone.
AppUnmount ==
    /\ mounted
    /\ swapPc = 0
    /\ updateTimeout' = NoUrlTimeout
    /\ sinceFrame' = 0
    /\ torn' = TRUE
    /\ mounted' = FALSE
    /\ fetching' = FALSE
    /\ sweeps' = <<>>
    /\ loading' = TRUE
    /\ error' = FALSE
    /\ currentSweep' = 0
    /\ sceneState' = FALSE
    /\ threeSceneRef' = FALSE
    /\ sceneRef' = FALSE
    /\ pendingURLStateRef' = NoState
    /\ isInitializedRef' = FALSE
    /\ prevSweepRef' = 0
    /\ currentResolution' = "512"
    /\ resolutionMode' = "auto"
    /\ fov' = BASE_FOV
    /\ fovChangeTimeout' = NoTimeout
    /\ effectDeps' = <<>>
    /\ IF phase = "mounted"
       THEN /\ phase' = "unmounted"
            /\ timer' = ClearUpgradeTimeout(timer)
            /\ scene' = SceneRemove(scene, meshRef)
            /\ geomDisp' = DisposeGeometry(geomDisp, meshRef)
            /\ matDisp' = DisposeMaterials(matDisp, meshMat, meshRef)
            /\ texDisp' = DisposeMaterials(texDisp, meshMat, meshRef)
       ELSE UNCHANGED <<phase, timer, scene, geomDisp, matDisp, texDisp>>
    /\ UNCHANGED <<sweepUuid, resolution, currentSweepRef, currentResolutionRef,
                   meshRef, upgradeTimeoutRef, requests, previewLoad,
                   upgradeLoad, loads, meshMat, texCreated, matCreated, swapPc>>
    /\ UNCHANGED <<location, popStates, visible, pose, drags>>
    /\ UNCHANGED <<tileVars, cubeVars, fnVars, sceneVars>>

\* The root renders App once, when the page loads.
RootRender == ~torn /\ Mount

\* App from its mount to its unmount, with the clock.
UrlNext ==
    \/ RootRender
    \/ \E list \in SweepLists : SweepsResolve(list)
    \/ SweepsReject
    \/ SceneReady
    \/ PanoramaViewerEffect
    \/ ResetResolutionEffect
    \/ InitialSweepEffect
    \/ Tick
    \/ Frame
    \/ UrlTimeout
    \/ \E p \in Poses : Drag(p)
    \/ Hide
    \/ Show
    \/ AppUnmount

\* React runs the renders and effects it has scheduled, time passes, frames
\* are delivered while the page is shown, and a due timer fires.
UrlFairness ==
    /\ WF_vars(SceneReady)
    /\ WF_vars(PanoramaViewerEffect)
    /\ WF_vars(ResetResolutionEffect)
    /\ WF_vars(InitialSweepEffect)
    /\ WF_vars(Tick)
    /\ WF_vars(Frame)
    /\ WF_vars(UrlTimeout)

\* ThreeScene: the field of view of its camera.

MaxNotifications == 6

\* Math.min(a, b)
MathMin(a, b) ==
    IF a.nan \/ b.nan THEN NaN ELSE IF a.v <= b.v THEN a ELSE b

\* a + k for a number a and an integer k
Plus(a, k) == IF a.nan THEN NaN ELSE Num(a.v + k)

\* Math.max(MIN_FOV, Math.min(MAX_FOV, value))
ClampFov(value) == MathMax(Num(MIN_FOV), MathMin(Num(MAX_FOV), value))

\* event.deltaY of the wheel events
WheelDeltas == {-100, 0, 100}

\* Arguments of setFov: NaN is what parseFloat makes of a fov parameter
\* that is not a number.
SetFovValues == {NaN, Num(0), Num(32), Num(75), Num(108), Num(200)}

CameraIdle ==
    /\ cameraRef = FALSE
    /\ cameraFov = Num(BASE_FOV)
    /\ notifications = 0

\* The effect of ThreeScene creates the camera with a FOV of 75.
CreateCamera ==
    /\ ~cameraRef
    /\ cameraRef' = TRUE
    /\ cameraFov' = Num(75)
    /\ UNCHANGED notifications
    /\ UNCHANGED <<viewerVars, tileVars, cubeVars, fnVars, appVars, urlVars>>

\* handleWheel: `newFov !== currentFov` is true of two NaNs.
handleWheel(deltaY) ==
    /\ cameraRef
    /\ notifications < MaxNotifications
    /\ LET delta == IF deltaY > 0 THEN 1 ELSE -1
           currentFov == cameraFov
           newFov == ClampFov(Plus(currentFov, delta * 5))
       IN  IF newFov.nan \/ newFov # currentFov
           THEN /\ cameraFov' = newFov
                /\ notifications' = notifications + 1
           ELSE UNCHANGED <<cameraFov, notifications>>
    /\ UNCHANGED cameraRef
    /\ UNCHANGED <<viewerVars, tileVars, cubeVars, fnVars, appVars, urlVars>>

\* setFov of the imperative handle: always notifies.
setFov(value) ==
    /\ cameraRef
    /\ notifications < MaxNotifications
    /\ LET clampedFov == ClampFov(value)
       IN  /\ cameraFov' = clampedFov
           /\ notifications' = notifications + 1
    /\ UNCHANGED cameraRef
    /\ UNCHANGED <<viewerVars, tileVars, cubeVars, fnVars, appVars, urlVars>>

CameraNext ==
    \/ CreateCamera
    \/ \E deltaY \in WheelDeltas : handleWheel(deltaY)
    \/ \E value \in SetFovValues : setFov(value)

\* App from the page load to its first display, for every URL.
SelectNext ==
    \/ Mount
    \/ \E list \in SweepLists : SweepsResolve(list)
    \/ SweepsReject
    \/ SceneReady
    \/ PanoramaViewerEffect
    \/ ResetResolutionEffect
    \/ InitialSweepEffect

\* React mounts the root, and runs the renders and effects it has scheduled.
SelectFairness ==
    /\ WF_vars(Mount)
    /\ WF_vars(SceneReady)
    /\ WF_vars(PanoramaViewerEffect)
    /\ WF_vars(ResetResolutionEffect)
    /\ WF_vars(InitialSweepEffect)

----------------------------------------------------------------------------
Init == ViewerInit /\ TileInit /\ CubeInit /\ FnIdle /\ AppIdle /\ UrlIdle /\ CameraIdle
Next ==
    \/ \E s \in Sweeps, t \in RequestedTiers : Request(s, t)
    \/ \E r \in ReqIds : PreviewResolve(r)
    \/ \E r \in ReqIds : PreviewReject(r)
    \/ \E r \in ReqIds : TimerFire(r)
    \/ \E r \in ReqIds : UpgradeResolve(r)
    \/ \E r \in ReqIds : UpgradeReject(r)
    \/ SwapAssign
    \/ Unmount

Spec == Init /\ [][Next]_vars

\* The viewer when its scene prop may change as well.
RerunNext == Next \/ Rerun

RerunSpec == Init /\ [][RerunNext]_vars

TileSpec == Init /\ [][TileNext]_vars

CubeSpec == Init /\ [][CubeNext]_vars

\* A pure function has been called with arguments from the input sets.
FnInit == ViewerInit /\ TileInit /\ CubeInit /\ FnCalled /\ AppIdle /\ UrlIdle /\ CameraIdle

FnSpec == FnInit /\ [][FnNext]_vars

\* The page is opened at one of the URLs.
AppInit == ViewerInit /\ TileInit /\ CubeInit /\ FnIdle /\ AppStart /\ UrlIdle /\ CameraIdle

AppSpec == AppInit /\ [][AppNext]_vars

NavSpec == Init /\ [][NavNext]_vars

BurstSpec == Init /\ [][BurstNext]_vars

CameraSpec == Init /\ [][CameraNext]_vars

SelectSpec == AppInit /\ [][SelectNext]_vars /\ SelectFairness

UrlSpec == Init /\ [][UrlNext]_vars /\ UrlFairness

----------------------------------------------------------------------------
\* Vocabulary of the properties.

Issued == 1..Len(requests)

\* Nothing is left to happen except new requests or an unmount.
Quiescent ==
    /\ swapPc = 0
    /\ \A r \in ReqIds :
        /\ previewLoad[r] # "inflight"
        /\ upgradeLoad[r] # "inflight"
        /\ timer[r] # "pending"

\* The load that produced texture set x.
LoadOf(x) == loads[CHOOSE i \in 1..Len(loads) : loads[i].req = x[1] /\ loads[i].kind = x[2]]

\* Mesh m carries textures of sweep s / of a tier above the preview tier.
ShowsSweep(m, s) == meshMat[m] # NoMat /\ LoadOf(meshMat[m]).sweep = s
ShowsHighTier(m) == meshMat[m] # NoMat /\ LoadOf(meshMat[m]).tier # "512"

\* Mesh m has all of its GPU resources alive.
Undisposed(m) ==
    /\ geomDisp[m] = 0
    /\ meshMat[m] # NoMat
    /\ matDisp[meshMat[m]] = 0
    /\ texDisp[meshMat[m]] = 0

LoadsOfRequest(r) == {i \in 1..Len(loads) : loads[i].req = r}

----------------------------------------------------------------------------
\* Exactly two requests: (A, tier other than '512'), then (B, '512') arriving
\* before A's background upgrade has settled.
C1_Scenario ==
    /\ Len(requests) = 2
    /\ requests[1].tier # "512"
    /\ requests[2].tier = "512"
    /\ requests[2].sweep # requests[1].sweep
    /\ requests[2].prevUpgrade \in {"none", "inflight"}

\* C1: after request (A, tier other than '512') followed by request
\* (B, '512') that arrives before A's upgrade has settled, once every load and
\* timer has settled the scene shows B's textures only, and no mesh in the
\* scene ever carries A's higher-tier textures.
C1_FinalMeshShowsB ==
    C1_Scenario =>
        /\ \A m \in scene : ~(ShowsSweep(m, requests[1].sweep) /\ ShowsHighTier(m))
        /\ (phase = "mounted" /\ Quiescent /\ previewLoad[2] = "ok") =>
              /\ scene # {}
              /\ \A m \in scene : ShowsSweep(m, requests[2].sweep)

\* C2: at most one panorama mesh is attached to the scene at any time.
C2_AtMostOneMesh == Cardinality(scene) <= 1

\* C3: once a preview mesh has been attached, and until unmount, the scene
\* always holds a panorama mesh whose textures are undisposed.
C3_NeverBlank ==
    (phase = "mounted" /\ swapPc = 0 /\ \E r \in Issued : previewLoad[r] = "ok") =>
        \E m \in scene : texDisp[meshMat[m]] = 0

\* C4: when the preview load of the current request has rejected, the meshes
\* that were displayed when the request arrived are still attached and
\* undisposed, and the request has issued no second load.
C4_PreviewFailureKeepsPrior ==
    \A r \in Issued :
        (previewLoad[r] = "failed" /\ r = Len(requests) /\ phase = "mounted") =>
            /\ requests[r].shown \subseteq scene
            /\ \A m \in requests[r].shown : Undisposed(m)
            /\ Cardinality(LoadsOfRequest(r)) <= 1

\* C5: dispose() is called at most once on every geometry, material array
\* and texture set.
C5_NoDoubleDispose ==
    /\ \A m \in ReqIds : geomDisp[m] <= 1
    /\ \A x \in ResIds : matDisp[x] <= 1 /\ texDisp[x] <= 1

\* C6: once every load and timer has settled, a texture set that is still
\* undisposed is the one on the mesh the mounted viewer displays; after
\* unmount none is undisposed and the scene is empty.
C6_NoTextureOutlives ==
    Quiescent =>
        /\ \A x \in texCreated :
              texDisp[x] = 0 =>
                  /\ phase = "mounted"
                  /\ meshRef \in scene
                  /\ meshMat[meshRef] = x
        /\ phase = "unmounted" => scene = {}

\* C7: after unmount no upgrade timer fires, no cubemap load is issued, no
\* mesh gets materials assigned and no mesh is added to the scene.
C7_NothingAfterUnmount ==
    [][phase = "unmounted" =>
          /\ loads' = loads
          /\ meshMat' = meshMat
          /\ scene' \subseteq scene
          /\ \A r \in ReqIds : timer'[r] = "fired" => timer[r] = "fired"]_vars

\* C8: when an upgrade load completes stale, its textures are disposed and
\* the scene, every mesh's materials and their disposal state are unchanged.
C8_StaleUpgradeDisposed ==
    [][\A r \in ReqIds :
          (upgradeLoad[r] = "inflight" /\ upgradeLoad'[r] = "stale") =>
              /\ texDisp'[<<r, "up">>] >= 1
              /\ scene' = scene
              /\ meshMat' = meshMat
              /\ matDisp' = matDisp
              /\ geomDisp' = geomDisp
              /\ \A x \in ResIds \ {<<r, "up">>} : texDisp'[x] = texDisp[x]]_vars

\* C9 as stated: during a non-stale upgrade the mesh never references a
\* disposed material (the new materials are assigned before the old ones are
\* disposed).
C9_AssignBeforeDispose ==
    swapPc # 0 => matDisp[meshMat[meshRef]] = 0 /\ texDisp[meshMat[meshRef]] = 0

\* C9 as amended: in a non-stale upgrade the new materials are created
\* before the old materials and textures are disposed, the old ones are
\* disposed before the new ones are assigned, and the assignment follows in
\* the same callback; after it the mesh references the new, undisposed
\* materials, and neither step rebuilds or disposes the mesh geometry or
\* changes which mesh is referenced or attached.
C9_CreateDisposeAssign ==
    [][/\ (swapPc = 0 /\ swapPc' # 0) =>
              LET new == <<swapPc', "up">>
                  old == meshMat[meshRef]
              IN  /\ new \in matCreated' /\ new \in texCreated'
                  /\ new # old
                  /\ matDisp'[new] = 0 /\ texDisp'[new] = 0
                  /\ matDisp'[old] = matDisp[old] + 1
                  /\ texDisp'[old] = texDisp[old] + 1
                  /\ meshMat' = meshMat
                  /\ geomDisp' = geomDisp
                  /\ meshRef' = meshRef
                  /\ scene' = scene
       /\ swapPc # 0 =>
              LET new == <<swapPc, "up">>
              IN  /\ swapPc' = 0
                  /\ meshMat'[meshRef] = new
                  /\ matDisp'[new] = 0 /\ texDisp'[new] = 0
                  /\ matDisp' = matDisp /\ texDisp' = texDisp
                  /\ geomDisp' = geomDisp
                  /\ meshRef' = meshRef
                  /\ scene' = scene]_vars

\* C9 witness: an upgrade has been applied to the displayed mesh.
C9_Witness ==
    \E r \in Issued :
        /\ upgradeLoad[r] = "applied"
        /\ swapPc = 0
        /\ meshRef \in scene
        /\ meshMat[meshRef] = <<r, "up">>

\* C10: the first load of every request is the '512' load of its sweep, and
\* a load of a higher tier is issued for a request only when its preview
\* mesh has been attached and its upgrade timer has fired.
C10_PreviewFirst ==
    \A r \in Issued :
        /\ LoadsOfRequest(r) # {}
        /\ LET first == CHOOSE i \in LoadsOfRequest(r) :
                            \A j \in LoadsOfRequest(r) : i <= j
           IN  /\ loads[first].tier = "512"
               /\ loads[first].sweep = requests[r].sweep
        /\ \A i \in LoadsOfRequest(r) :
              loads[i].tier # "512" =>
                  /\ loads[i].tier = requests[r].tier
                  /\ loads[i].sweep = requests[r].sweep
                  /\ previewLoad[r] = "ok"
                  /\ meshMat[r] # NoMat
                  /\ timer[r] = "fired"

\* C10 witness: a request has issued its higher-tier load after its preview.
C10_Witness ==
    \E r \in Issued : \E i \in LoadsOfRequest(r) :
        loads[i].tier # "512" /\ previewLoad[r] = "ok" /\ timer[r] = "fired"

\* The request that made the latest effect run.
Latest == Len(requests)

SamePair(r, q) ==
    requests[r].sweep = requests[q].sweep /\ requests[r].tier = requests[q].tier

\* C11: a request for tier '512' never schedules an upgrade timer and never
\* issues a second cubemap load.
C11_NoUpgradeFor512 ==
    \A r \in Issued :
        requests[r].tier = "512" =>
            /\ timer[r] = "none"
            /\ upgradeLoad[r] = "none"
            /\ Cardinality(LoadsOfRequest(r)) <= 1

\* C11 witness: a '512' request has its preview attached and nothing of it
\* is left to run.
C11_Witness ==
    \E r \in Issued :
        /\ requests[r].tier = "512"
        /\ previewLoad[r] = "ok"
        /\ r \in scene
        /\ Quiescent

\* C12: when the upgrade timer of request r fires while the current
\* (sweep, resolution) differs from r's pair, no cubemap load is issued and
\* the scene, every mesh's materials and all disposal state are unchanged.
C12_StaleTimerAborts ==
    [][\A r \in ReqIds :
          (/\ timer[r] = "pending"
           /\ timer'[r] = "fired"
           /\ <<currentSweepRef, currentResolutionRef>>
                 # <<requests[r].sweep, requests[r].tier>>) =>
              /\ loads' = loads
              /\ upgradeLoad'[r] # "inflight"
              /\ scene' = scene
              /\ meshRef' = meshRef
              /\ meshMat' = meshMat
              /\ matCreated' = matCreated
              /\ geomDisp' = geomDisp
              /\ matDisp' = matDisp
              /\ texDisp' = texDisp]_vars

\* C12 witness: a timer has fired for a superseded request and was dropped.
C12_Witness ==
    \E r \in Issued :
        /\ timer[r] = "fired"
        /\ upgradeLoad[r] = "aborted"
        /\ r # Latest

\* C13 as stated: an upgrade load is issued, and an upgrade is applied to the
\* mesh, only for the most recent request.
C13_OnlyLatestUpgrades ==
    [][\A r \in ReqIds :
          /\ (upgradeLoad[r] # "inflight" /\ upgradeLoad'[r] = "inflight") => r = Latest
          /\ (upgradeLoad[r] # "applied" /\ upgradeLoad'[r] = "applied") => r = Latest]_vars

\* C13 as amended: an upgrade load is issued, and an upgrade is applied to
\* the mesh, only when the request that scheduled it asked for the same
\* (sweep, resolution) pair as the most recent request.
C13_OnlySamePairUpgrades ==
    [][\A r \in ReqIds :
          /\ (upgradeLoad[r] # "inflight" /\ upgradeLoad'[r] = "inflight") =>
                SamePair(r, Latest)
          /\ (upgradeLoad[r] # "applied" /\ upgradeLoad'[r] = "applied") =>
                SamePair(r, Latest)]_vars

\* C13 witness: the upgrade of a request that is no longer the most recent
\* one, but has the same pair, has been applied.
C13_Witness ==
    \E r \in Issued :
        /\ r # Latest
        /\ SamePair(r, Latest)
        /\ requests[Latest].prevUpgrade # "applied"
        /\ upgradeLoad[r] = "applied"
        /\ \E q \in Issued : r < q /\ q < Latest /\ ~SamePair(r, q)

\* C14: when the upgrade load of request r rejects, the step changes neither
\* the scene nor any mesh's materials nor any disposal count and issues no
\* load; if r is still the current request of a mounted viewer its preview
\* mesh is attached and undisposed; and r never issues another load.
C14_UpgradeFailureKeepsPreview ==
    [][\A r \in ReqIds :
          /\ (upgradeLoad[r] = "inflight" /\ upgradeLoad'[r] = "failed") =>
                /\ scene' = scene
                /\ meshRef' = meshRef
                /\ meshMat' = meshMat
                /\ geomDisp' = geomDisp
                /\ matDisp' = matDisp
                /\ texDisp' = texDisp
                /\ loads' = loads
                /\ (r = Latest /\ phase = "mounted") =>
                      /\ r \in scene'
                      /\ geomDisp'[r] = 0
                      /\ matDisp'[meshMat'[r]] = 0
                      /\ texDisp'[meshMat'[r]] = 0
          /\ upgradeLoad[r] = "failed" =>
                /\ upgradeLoad'[r] = "failed"
                /\ \A i \in 1..Len(loads') : loads'[i].req = r => i <= Len(loads)]_vars

\* C14 witness: the current request's upgrade has failed and its preview is
\* still what the scene shows.
C14_Witness ==
    \E r \in Issued :
        /\ r = Latest
        /\ phase = "mounted"
        /\ upgradeLoad[r] = "failed"
        /\ scene = {r}
        /\ meshMat[r] = <<r, "pre">>

----------------------------------------------------------------------------
\* Scheduling: an issued image load settles, a pending timer fires after its
\* 100 ms, and the synchronous tail of the upgrade callback runs to its end.
Fairness ==
    /\ \A r \in ReqIds :
        /\ WF_vars(PreviewResolve(r) \/ PreviewReject(r))
        /\ WF_vars(TimerFire(r))
        /\ WF_vars(UpgradeResolve(r) \/ UpgradeReject(r))
    /\ WF_vars(SwapAssign)

\* Bound: number of effect runs in a behaviour checked for liveness.
MaxLiveRequests == 2

LiveRequest(s, t) == Len(requests) < MaxLiveRequests /\ Request(s, t)

LiveNext ==
    \/ \E s \in Sweeps, t \in RequestedTiers : LiveRequest(s, t)
    \/ \E r \in ReqIds : PreviewResolve(r)
    \/ \E r \in ReqIds : PreviewReject(r)
    \/ \E r \in ReqIds : TimerFire(r)
    \/ \E r \in ReqIds : UpgradeResolve(r)
    \/ SwapAssign
    \/ \E r \in ReqIds : UpgradeReject(r)
    \/ Unmount

LiveSpec == Init /\ [][LiveNext]_vars /\ Fairness

\* The mesh the controller holds is attached, alive, and carries the
\* textures of the upgrade load of request r.
DisplaysUpgradeOf(r) ==
    /\ swapPc = 0
    /\ meshRef # 0
    /\ meshRef \in scene
    /\ meshMat[meshRef] = <<r, "up">>
    /\ LoadOf(<<r, "up">>).sweep = requests[r].sweep
    /\ LoadOf(<<r, "up">>).tier = requests[r].tier
    /\ Undisposed(meshRef)

\* C15: a request r for a tier other than '512' that is current and whose
\* upgrade has not been applied yet leads to the held mesh carrying r's
\* requested-tier textures, unless a newer request or an unmount arrives or
\* its preview load or its upgrade load fails.
C15_UpgradeEventuallyShown ==
    \A r \in ReqIds :
        (/\ Len(requests) = r
         /\ phase = "mounted"
         /\ requests[r].tier # "512"
         /\ upgradeLoad[r] # "applied")
            ~> \/ Len(requests) > r
               \/ phase = "unmounted"
               \/ previewLoad[r] = "failed"
               \/ upgradeLoad[r] = "failed"
               \/ DisplaysUpgradeOf(r)

\* C15 witness: the current request's upgrade is displayed with nothing left
\* to run, after an earlier request was superseded.
C15_Witness ==
    \E r \in Issued :
        /\ r = Latest
        /\ r > 1
        /\ phase = "mounted"
        /\ requests[r].tier # "512"
        /\ DisplaysUpgradeOf(r)
        /\ Quiescent

----------------------------------------------------------------------------
\* Claims on loadCubemapTextures and loadTiledTexture.

\* C16: loadCubemapTextures resolves with exactly 6 textures, one from each
\* resolved face load, or hands over nothing; when any face load has
\* rejected the call has rejected.
C16_SixOrReject ==
    /\ cPhase = "resolved" =>
          /\ Len(cResult) = 6
          /\ \A pos \in Positions : cFace[pos] = "resolved" /\ cResult[pos] # NoTexture
    /\ cPhase # "resolved" => cResult = <<>>
    /\ (\E pos \in Positions : cFace[pos] = "rejected") => cPhase = "rejected"

\* C16 witness: one face load rejected after others had resolved; the call
\* rejected and handed over nothing.
C16_Witness ==
    /\ cPhase = "rejected"
    /\ cResult = <<>>
    /\ \E pos \in Positions : cFace[pos] = "rejected"
    /\ Cardinality({pos \in Positions : cFace[pos] = "resolved"}) = 5

\* C17: when loadCubemapTextures has resolved, position i of its array holds
\* the texture of source face [4,2,0,5,1,3][i].
C17_FixedFaceOrder ==
    cPhase = "resolved" =>
        [i \in 1..Len(cResult) |-> cResult[i].face] = <<4, 2, 0, 5, 1, 3>>

\* C17 witness: the call resolved although the face loads completed in the
\* reverse of the array order.
C17_Witness ==
    /\ cPhase = "resolved"
    /\ cDone = <<6, 5, 4, 3, 2, 1>>

\* The canvas cell the claims assign to the tile at position k of tUrls.
TileCell(k) ==
    <<((k - 1) \div tGrid) * 512, ((k - 1) % tGrid) * 512>>

AllTilesSettled == \A k \in 1..Len(tTile) : tTile[k] # "pending"

\* C18: with a grid larger than 1x1 and tile fetches issued, loadTiledTexture
\* never rejects; once all tiles have settled it has resolved with a canvas
\* texture in which the cell of every loaded tile holds that tile and the
\* cell of every failed tile is blank.
C18_PartialTilesTolerated ==
    (tGrid > 1 /\ tTile # <<>>) =>
        /\ tPhase # "rejected"
        /\ AllTilesSettled =>
              /\ tPhase = "resolved"
              /\ tResult.kind = "canvas"
              /\ DOMAIN tResult.cells = {TileCell(k) : k \in 1..Len(tTile)}
              /\ \A k \in 1..Len(tTile) :
                    tResult.cells[TileCell(k)] =
                        IF tTile[k] = "loaded" THEN tUrls[k] ELSE Blank

\* C18 witness: a 2x2 face resolved with some tiles loaded and some failed.
C18_Witness ==
    /\ tGrid > 1
    /\ tPhase = "resolved"
    /\ \E k \in 1..Len(tTile) : tTile[k] = "failed"
    /\ \E k \in 1..Len(tTile) : tTile[k] = "loaded"

\* C19: in every tier, a face one of whose tile fetches failed has not
\* rejected, and loadCubemapTextures rejects only because of a face none of
\* whose tile fetches failed.
C19_TileFailureRecoveredLocally ==
    /\ \A pos \in Positions : cFailed[pos] > 0 => cFace[pos] # "rejected"
    /\ cPhase = "rejected" =>
          \E pos \in Positions : cFace[pos] = "rejected" /\ cFailed[pos] = 0

\* C20 as stated: a face load has completed only when none of its tile
\* fetches is unsettled, and loadCubemapTextures has completed only when no
\* tile fetch of any face is unsettled.
C20_NothingCompletesBeforeTiles ==
    /\ \A pos \in Positions :
          cFace[pos] \in {"resolved", "rejected"} => cPending[pos] = 0
    /\ cPhase \in {"resolved", "rejected"} =>
          \A pos \in Positions : cPending[pos] = 0

\* C20 as amended: a face load has completed only when none of its tile
\* fetches is unsettled, and loadCubemapTextures has resolved only when no
\* tile fetch of any face is unsettled (it may have rejected before that).
C20_NothingResolvesBeforeTiles ==
    /\ \A pos \in Positions :
          cFace[pos] \in {"resolved", "rejected"} => cPending[pos] = 0
    /\ cPhase = "resolved" =>
          \A pos \in Positions : cPending[pos] = 0

\* C20 witness: a face with failed and unsettled tiles is still pending
\* next to faces that resolved, and the call has already rejected.
C20_Witness ==
    /\ cPhase = "rejected"
    /\ \E pos \in Positions :
          /\ cFace[pos] = "pending"
          /\ cFailed[pos] > 0
          /\ cPending[pos] > 0
    /\ \E pos \in Positions : cFace[pos] = "resolved"

\* The canvas the claims expect from the set of loaded tiles alone: the cell
\* at offset <<x, y>> belongs to the tile of row x / 512 and column y / 512,
\* that is to row-major index (x / 512) * g + y / 512.
ExpectedCanvas ==
    [c \in {<<r * 512, q * 512>> : r \in 0..(tGrid - 1), q \in 0..(tGrid - 1)} |->
        LET i == (c[1] \div 512) * tGrid + (c[2] \div 512)
        IN  IF tTile[i + 1] = "loaded" THEN tUrls[i + 1] ELSE Blank]

\* C21: when a face with a grid larger than 1x1 has resolved, every loaded
\* tile sits at canvas offset x = row * 512, y = col * 512 of its row-major
\* (row, col), distinct tiles have distinct cells, and the canvas is the one
\* determined by the set of loaded tiles, whatever order the images settled in.
C21_TransposedCellsOrderFree ==
    (tGrid > 1 /\ tPhase = "resolved") =>
        /\ \A k \in 1..Len(tUrls) :
              /\ tUrls[k].row = (k - 1) \div tGrid
              /\ tUrls[k].col = (k - 1) % tGrid
              /\ tTile[k] = "loaded" =>
                    tCanvas[<<tUrls[k].row * 512, tUrls[k].col * 512>>] = tUrls[k]
        /\ \A k \in 1..Len(tUrls) : \A j \in 1..Len(tUrls) :
              k # j => TileCell(k) # TileCell(j)
        /\ tCanvas = ExpectedCanvas
        /\ tResult.cells = ExpectedCanvas

\* C21 witness: a 2x2 face resolved after its images settled in the reverse
\* of the array order, the tile of row 0, col 1 among the loaded ones.
C21_Witness ==
    /\ tGrid > 1
    /\ tPhase = "resolved"
    /\ tOrder = <<4, 3, 2, 1>>
    /\ tTile[2] = "loaded"
    /\ tTile[3] = "failed"

----------------------------------------------------------------------------
\* Claims on the tile paths.

Returned(fn) == fnArgs.fn = fn /\ fnDone

\* All URLs of the arrays in lists, as a set.
UrlsOf(lists) == UNION {{lists[p][k] : k \in 1..Len(lists[p])} : p \in 1..Len(lists)}

RECURSIVE TotalLen(_)
TotalLen(lists) ==
    IF lists = <<>> THEN 0 ELSE Len(Head(lists)) + TotalLen(Tail(lists))

\* C22: loadCubemapTextures(id, tier) builds six URL lists, one per source
\* face 0..5, of g * g URLs each (6 / 24 / 96 in all), no URL twice, and the
\* list of face f is getTilePaths(id, tier, f) for the same base path.
C22_CubemapUrlsAreTilePaths ==
    Returned("loadCubemapTextures") =>
        LET n == CASE fnArgs.tier = "512" -> 1
                   [] fnArgs.tier = "1k" -> 4
                   [] fnArgs.tier = "2k" -> 16
        IN  /\ Len(fnResult) = 6
            /\ \A p \in 1..6 : Len(fnResult[p]) = n
            /\ TotalLen(fnResult) = 6 * n
            /\ Cardinality(UrlsOf(fnResult)) = 6 * n
            /\ \A f \in 0..5 : \E p \in 1..6 :
                  fnResult[p] = getTilePaths(fnArgs.sweepUuid, fnArgs.tier, f,
                                             fnArgs.basePath)
            /\ \A p \in 1..6 :
                  fnResult[p] = getTilePaths(fnArgs.sweepUuid, fnArgs.tier,
                                             <<4, 2, 0, 5, 1, 3>>[p], fnArgs.basePath)

\* C22 witness: the 96 URLs of a '2k' load of a hyphenated identifier.
C22_Witness ==
    /\ Returned("loadCubemapTextures")
    /\ fnArgs.tier = "2k"
    /\ fnArgs.sweepUuid = <<"a", "-", "b">>
    /\ Cardinality(UrlsOf(fnResult)) = 96

\* C24: getTilePaths returns 1, 4 and 16 paths for '512', '1k' and '2k', the
\* path of (row, col) at row-major index row * g + col, each path being
\* {basePath}/panoramas/{sanitizedId}/{tier}_face{face}_{row}_{col}.jpg.
C24_TilePathsRowMajor ==
    Returned("getTilePaths") =>
        LET g == CASE fnArgs.tier = "512" -> 1
                   [] fnArgs.tier = "1k" -> 2
                   [] fnArgs.tier = "2k" -> 4
        IN  /\ Len(fnResult) = g * g
            /\ Len(fnResult) \in {1, 4, 16}
            /\ \A row \in 0..(g - 1) : \A col \in 0..(g - 1) :
                  fnResult[row * g + col + 1] =
                      fnArgs.basePath \o "/panoramas/"
                          \o Join(SelectSeq(fnArgs.sweepUuid, IsNotHyphen)) \o "/"
                          \o fnArgs.tier \o "_face" \o ToString(fnArgs.face)
                          \o "_" \o ToString(row) \o "_" \o ToString(col) \o ".jpg"
            /\ (/\ fnArgs.sweepUuid = <<"a", "-", "b">>
                /\ fnArgs.tier = "1k"
                /\ fnArgs.face = 3
                /\ fnArgs.basePath = "/assets/BGMifUnvLxQ") =>
                  fnResult = <<"/assets/BGMifUnvLxQ/panoramas/ab/1k_face3_0_0.jpg",
                               "/assets/BGMifUnvLxQ/panoramas/ab/1k_face3_0_1.jpg",
                               "/assets/BGMifUnvLxQ/panoramas/ab/1k_face3_1_0.jpg",
                               "/assets/BGMifUnvLxQ/panoramas/ab/1k_face3_1_1.jpg">>

\* C24 witness: the 16 paths of a '2k' face.
C24_Witness ==
    /\ Returned("getTilePaths")
    /\ fnArgs.tier = "2k"
    /\ Len(fnResult) = 16
    /\ fnResult[7] = fnArgs.basePath \o "/panoramas/"
                        \o Join(SelectSeq(fnArgs.sweepUuid, IsNotHyphen))
                        \o "/2k_face" \o ToString(fnArgs.face) \o "_1_2.jpg"

\* An identifier with every hyphen taken out.
RECURSIVE WithoutHyphens(_)
WithoutHyphens(uuid) ==
    IF uuid = <<>> THEN <<>>
    ELSE IF Head(uuid) = "-" THEN WithoutHyphens(Tail(uuid))
    ELSE <<Head(uuid)>> \o WithoutHyphens(Tail(uuid))

\* C25: the paths of getTilePaths and the URLs of loadCubemapTextures are
\* those of the identifier without its hyphens, and so the same for every
\* identifier that differs only in hyphens.
C25_HyphensDoNotMatter ==
    /\ Returned("getTilePaths") =>
          /\ fnResult = getTilePaths(WithoutHyphens(fnArgs.sweepUuid), fnArgs.tier,
                                     fnArgs.face, fnArgs.basePath)
          /\ \A other \in SweepUuids :
                WithoutHyphens(other) = WithoutHyphens(fnArgs.sweepUuid) =>
                    fnResult = getTilePaths(other, fnArgs.tier, fnArgs.face,
                                            fnArgs.basePath)
    /\ Returned("loadCubemapTextures") =>
          /\ fnResult = cubemapTileUrls(WithoutHyphens(fnArgs.sweepUuid), fnArgs.tier,
                                        fnArgs.basePath)
          /\ \A other \in SweepUuids :
                WithoutHyphens(other) = WithoutHyphens(fnArgs.sweepUuid) =>
                    fnResult = cubemapTileUrls(other, fnArgs.tier, fnArgs.basePath)

\* C25 witness: paths returned for an identifier with two hyphens, another
\* spelling of which is among the inputs.
C25_Witness ==
    /\ fnDone
    /\ fnArgs.fn \in {"getTilePaths", "loadCubemapTextures"}
    /\ fnArgs.sweepUuid = <<"c", "-", "-", "d">>
    /\ <<"c", "d">> \in SweepUuids

\* C23: the step that calls loadCubemapTextures starts all six face loads
\* and issues all g * g tile fetches of every face that got a context; no
\* later step starts a face load or issues a tile fetch.
C23_AllFetchesIssuedAtCall ==
    [][/\ (cPhase = "idle" /\ cPhase' # "idle") =>
              \A pos \in Positions :
                  /\ cFace'[pos] # "idle"
                  /\ cFace'[pos] = "pending" =>
                        cPending'[pos] =
                            (CASE cTier' = "512" -> 1
                               [] cTier' = "1k" -> 4
                               [] cTier' = "2k" -> 16)
       /\ cPhase # "idle" =>
              \A pos \in Positions :
                  /\ cPending'[pos] <= cPending[pos]
                  /\ cFace[pos] # "idle"
                  /\ cFace'[pos] # "idle"]_vars

\* C23 witness: one face of a '1k' load has resolved while every tile fetch
\* of the five other faces is still unsettled.
C23_Witness ==
    /\ cPhase = "pending"
    /\ cTier = "1k"
    /\ \E pos \in Positions :
          /\ cFace[pos] = "resolved"
          /\ \A q \in Positions \ {pos} : cFace[q] = "pending" /\ cPending[q] = 4

----------------------------------------------------------------------------
\* Claims on formatUUID and calculateRequiredResolution.

\* C26: formatUUID of an input whose form without hyphens has 32 characters
\* is that form with hyphens put in at offsets 8, 12, 16 and 20, and taking
\* the hyphens out of the result gives the form back; any other input is
\* returned unchanged; formatting the result again changes nothing.
C26_FormatUUID ==
    Returned("formatUUID") =>
        LET stripped == WithoutHyphens(fnArgs.uuid)
        IN  /\ IF Len(stripped) = 32
               THEN /\ fnResult = SubSeq(stripped, 1, 8) \o <<"-">>
                                    \o SubSeq(stripped, 9, 12) \o <<"-">>
                                    \o SubSeq(stripped, 13, 16) \o <<"-">>
                                    \o SubSeq(stripped, 17, 20) \o <<"-">>
                                    \o SubSeq(stripped, 21, 32)
                    /\ Len(fnResult) = 36
                    /\ {i \in 1..36 : fnResult[i] = "-"} = {9, 14, 19, 24}
                    /\ WithoutHyphens(fnResult) = stripped
               ELSE fnResult = fnArgs.uuid
            /\ formatUUID(fnResult) = fnResult

\* C26 witness: a 32-digit identifier given with hyphens in other places
\* than the canonical ones came back in canonical form.
C26_Witness ==
    /\ Returned("formatUUID")
    /\ Len(WithoutHyphens(fnArgs.uuid)) = 32
    /\ Len(fnArgs.uuid) = 35
    /\ fnArgs.uuid[1] = "-"
    /\ fnResult # fnArgs.uuid
    /\ Len(fnResult) = 36

TierRank(tier) ==
    CASE tier = "512" -> 1
      [] tier = "1k" -> 2
      [] tier = "2k" -> 3

\* The larger of the two projected sizes of the call, when both are numbers.
Projected ==
    IF fnArgs.faceWidthPixels.v >= fnArgs.faceHeightPixels.v
    THEN fnArgs.faceWidthPixels.v
    ELSE fnArgs.faceHeightPixels.v

\* C27: calculateRequiredResolution returns one of the three tiers: '512'
\* below 600 px, '1k' from 600 to below 1200 px, '2k' from 1200 px on, and
\* never a lower tier for a larger projected face size.
C27_TierThresholds ==
    Returned("calculateRequiredResolution") =>
        /\ fnResult \in {"512", "1k", "2k"}
        /\ (~fnArgs.faceWidthPixels.nan /\ ~fnArgs.faceHeightPixels.nan) =>
              /\ Projected < 600 => fnResult = "512"
              /\ (Projected >= 600 /\ Projected < 1200) => fnResult = "1k"
              /\ Projected >= 1200 => fnResult = "2k"
              /\ \A w \in FacePixels : \A h \in FacePixels :
                    (~w.nan /\ ~h.nan /\ w.v <= Projected /\ h.v <= Projected) =>
                        TierRank(calculateRequiredResolution(w, h)) <= TierRank(fnResult)

\* C27 witness: a face projected at exactly 600 px got '1k'.
C27_Witness ==
    /\ Returned("calculateRequiredResolution")
    /\ fnArgs.faceWidthPixels = Num(600)
    /\ fnArgs.faceHeightPixels = Num(599)
    /\ fnResult = "1k"

----------------------------------------------------------------------------
NoLoadFailed ==
    \A r \in ReqIds : previewLoad[r] # "failed" /\ upgradeLoad[r] # "failed"

\* C30: in a mounted viewer with no load in flight, no timer pending and no
\* load failed, the mesh the controller holds is attached to the scene and
\* carries textures of the current sweep at the current resolution.
C30_SettledShowsCurrent ==
    (phase = "mounted" /\ Quiescent /\ NoLoadFailed) =>
        /\ meshRef # 0
        /\ meshRef \in scene
        /\ ShowsSweep(meshRef, sweepUuid)
        /\ LoadOf(meshMat[meshRef]).tier = resolution

\* The load the viewer's effect issued for its k-th props.
IssuedFor(k, i, tier) ==
    /\ k \in 1..Len(requests)
    /\ requests[k].sweep = Join(sweeps[i])
    /\ \E n \in 1..Len(loads) :
           loads[n] = Load(k, "pre", Join(sweeps[i]), tier)

\* The sweep list has loaded (non-empty), the scene is ready, and React has
\* run every effect.
AppSettled == Len(sweeps) > 0 /\ sceneState /\ ~EffectPending

\* C28: with no view state in the URL, once the sweep list has loaded
\* (non-empty) and the scene is ready, the current sweep is the first sweep
\* of the list, the viewer's first props ask for '512' while the mode is
\* still 'auto', and a '512' preview load of that sweep has been issued.
C28_DefaultsToFirstSweep ==
    (mounted /\ location = NoUrlParams /\ popStates = 0) =>
        /\ Len(requests) = 0 => resolutionMode = "auto"
        /\ (Len(requests) = 0 /\ Len(sweeps) > 0) => currentResolution = "512"
        /\ AppSettled =>
               /\ currentSweep = 1
               /\ requests[1].tier = "512"
               /\ IssuedFor(1, 1, "512")

C28_Witness ==
    /\ location = NoUrlParams
    /\ popStates = 0
    /\ AppSettled
    /\ sweeps = <<SweepId(5), SweepId(3)>>
    /\ currentSweep = 1
    /\ Len(requests) = 1
    /\ IssuedFor(1, 1, "512")

\* The URL carries the whole view state and its sweep is the i-th of the list.
Names(url, i) == MountRestores(url) /\ sweeps[i] = formatUUID(url.sweep.v)

\* C29: when the URL carries sweep, x, y, z, pitch and yaw and names a sweep
\* of the list, then, once the list has loaded and the scene is ready, that
\* sweep is the current sweep and a load of its textures has been issued,
\* whether the URL was parsed before the list loaded or after.
C29_UrlSweepSelected ==
    \A i \in 1..Len(sweeps) :
        (Names(location, i) /\ AppSettled) =>
            /\ currentSweep = i
            /\ \E k \in 1..Len(requests) : IssuedFor(k, i, "512")

\* The URL was parsed after the list had loaded: the state is still stored.
C29_Witness ==
    /\ AppSettled
    /\ popStates = 1
    /\ pendingURLStateRef.set
    /\ Names(location, 2)
    /\ currentSweep = 2
    /\ \E k \in 1..Len(requests) : IssuedFor(k, 2, "512")

\* The effect has just run again with the props it had.
Reran ==
    /\ Len(requests') = Len(requests) + 1
    /\ sweepUuid' = sweepUuid
    /\ resolution' = resolution

\* C31: a run of the viewer effect with an unchanged (sweepUuid, resolution)
\* pair issues no cubemap load and leaves the displayed mesh attached to the
\* scene and undisposed.
C31_RerunLeavesMeshAlone ==
    [][Reran =>
          /\ loads' = loads
          /\ \A m \in scene : Undisposed(m) => (m \in scene' /\ Undisposed(m)')]_vars

\* C32: handleNavigate with a uuid of the sweep list makes that sweep the
\* current sweep and '512' the requested resolution and leaves resolutionMode
\* as it was; with a uuid that is not in the list it changes nothing.
C32_NavigateEffect ==
    [][\A uuid \in NavTargets :
          handleNavigate(uuid) =>
              IF \E i \in 1..Len(sweeps) : sweeps[i] = uuid
              THEN /\ sweeps[currentSweep'] = uuid
                   /\ currentResolution' = "512"
                   /\ resolutionMode' = resolutionMode
              ELSE UNCHANGED vars]_vars

\* A navigation in manual mode '2k' has just happened: the sweep changed and
\* the resolution is '512' before the reset-resolution effect has run.
C32_Witness ==
    /\ currentSweep # 0
    /\ prevSweepRef # 0
    /\ currentSweep # prevSweepRef
    /\ resolutionMode = "2k"
    /\ currentResolution = "512"

\* C33: whenever resolutionMode is a manual tier, the resolution passed to
\* the PanoramaViewer is that tier.
C33_ManualModeHolds ==
    resolutionMode \in Tiers => currentResolution = resolutionMode

\* The FOV debounce timer fires in this step.
FovTimerFires == fovChangeTimeout.pending /\ ~fovChangeTimeout'.pending

\* C34: in auto mode the resolution does not change with a FOV
\* notification itself; a notification replaces the pending timer, so that a
\* burst ends with one firing, which either leaves the resolution alone or
\* sets the tier computed for the FOV of the last notification.
C34_LastOfBurstWins ==
    [][/\ fov' # fov => (currentResolution' = currentResolution
                         /\ fovChangeTimeout'.pending
                         /\ fovChangeTimeout'.required = RequiredResolution(fov'))
       /\ FovTimerFires =>
              \/ currentResolution' = currentResolution
              \/ currentResolution' = RequiredResolution(fov)]_vars

\* Five notifications (FOV 75 down to 50) and one firing: the viewer went
\* from its first props ('512') straight to '2k'.
C34_Witness ==
    /\ fov = 50
    /\ ~fovChangeTimeout.pending
    /\ currentResolution = "2k"
    /\ Len(requests) = 2
    /\ requests[1].tier = "512"
    /\ requests[2].tier = "2k"

\* C35: in auto mode, with the viewer rendered, every effect run and no FOV
\* debounce timer pending, the requested resolution is the tier
\* calculateRequiredResolution gives for the camera's FOV.
C35_AutoFollowsFov ==
    (/\ resolutionMode = "auto"
     /\ ~fovChangeTimeout.pending
     /\ sceneState
     /\ currentSweep # 0
     /\ ~EffectPending) =>
        currentResolution = RequiredResolution(fov)

\* The URL that says where the camera is now.
ViewUrl == WrittenUrl(sweeps[currentSweep], pose)

\* C36: while App stays mounted with a sweep displayed and the page shown
\* (the animation loop keeps running), the URL is eventually rewritten with
\* the latest view state.
C36_UrlEventuallyRewritten ==
    (mounted /\ visible /\ currentSweep # 0)
        ~> (~mounted \/ ~visible \/ (currentSweep # 0 /\ location = ViewUrl))

\* C37: the FOV of the camera is always a number from 30 to 110, whatever
\* wheel events and setFov calls there were.
C37_FovWithinBounds ==
    ~cameraFov.nan /\ cameraFov.v >= MIN_FOV /\ cameraFov.v <= MAX_FOV

\* C38: once a non-empty sweep list has loaded and the scene is ready, a
\* current sweep is eventually selected, whatever the URL holds.
C38_SweepEventuallySelected ==
    (Len(sweeps) > 0 /\ sceneState) ~> (currentSweep # 0)

====
